---- MODULE Spec2Model ----
(***************************************************************************)
(* Experience-modification audit engine (src/mod_engine.py,                *)
(* src/state_config.py) as a state machine.                                *)
(*                                                                         *)
(* Numbers.  The program computes on Python floats.  The model computes    *)
(* on exact rationals: money amounts of the claim gates and the payroll    *)
(* are rationals n/d over the integers (records [n, d], kept in lowest     *)
(* terms), in dollars; the credibility formula and the mod formula, whose  *)
(* intermediate products exceed the integer range of the model checker,    *)
(* are computed on rationals over arbitrary-precision naturals (sequences  *)
(* of base-10000 limbs).  Float rounding error is therefore not modelled.  *)
(***************************************************************************)
EXTENDS Integers, Sequences, FiniteSets, TLC

(***************************************************************************)
(* Arbitrary-precision naturals: little-endian limb sequences, no leading  *)
(* zero limb, zero is << >>.                                               *)
(***************************************************************************)
Base == 100 * 100

\* The one element of a singleton set.  An intermediate result is bound once,
\* as v in Only({e(v) : v \in {intermediate}}), and then used as a value.
Only(S) == CHOOSE r \in S : TRUE

\* limb i of a, zero beyond its length
Limb(a, i) == IF i <= Len(a) THEN a[i] ELSE 0

RECURSIVE BigOf(_)
BigOf(k) == IF k = 0 THEN <<>> ELSE <<k % Base>> \o BigOf(k \div Base)

\* a without its leading zero limbs
BigStrip(a) ==
    SubSeq(a, 1, Cardinality({i \in 1..Len(a) : \E j \in i..Len(a) : a[j] # 0}))

\* the carry into limb i of a sum whose limb sums are s (each at most
\* 2 * Base - 1): some lower limb overflows and every limb between is full
CarryInto(s, i) ==
    IF \E j \in 1..(i - 1) :
           s[j] >= Base /\ \A k \in (j + 1)..(i - 1) : s[k] = Base - 1
    THEN 1 ELSE 0

BigAddLimbs(s) ==
    [i \in 1..Len(s) |-> (s[i] + CarryInto(s, i)) % Base]
        \o (IF CarryInto(s, Len(s) + 1) = 1 THEN <<1>> ELSE <<>>)

BigAdd(a, b) ==
    IF a = <<>> THEN b
    ELSE IF b = <<>> THEN a
    ELSE LET n == IF Len(a) < Len(b) THEN Len(b) ELSE Len(a)
         IN  Only({ BigAddLimbs(s) :
                     s \in {[i \in 1..n |-> Limb(a, i) + Limb(b, i)] \o <<>>} })

\* a * k for a limb k
BigMulS(a, k) ==
    IF a = <<>> \/ k = 0 THEN <<>>
    ELSE BigStrip(BigAdd([i \in 1..Len(a) |-> (a[i] * k) % Base] \o <<>>,
                         <<0>> \o [i \in 1..Len(a) |-> (a[i] * k) \div Base]))

\* a * (limbs lo..hi of b, at their place)
RECURSIVE BigMulRange(_, _, _, _)
BigMulRange(a, b, lo, hi) ==
    IF lo = hi
    THEN [i \in 1..(lo - 1) |-> 0] \o BigMulS(a, b[lo])
    ELSE Only({ BigAdd(BigMulRange(a, b, lo, mid), BigMulRange(a, b, mid + 1, hi)) :
                 mid \in {(lo + hi) \div 2} })

BigMul(a, b) ==
    IF a = <<>> \/ b = <<>> THEN <<>>
    ELSE BigStrip(BigMulRange(a, b, 1, Len(b)))

\* -1, 0, 1 as a < b, a = b, a > b
BigCmp(a, b) ==
    IF Len(a) < Len(b) THEN -1
    ELSE IF Len(a) > Len(b) THEN 1
    ELSE IF a = b THEN 0
    ELSE Only({ IF a[i] < b[i] THEN -1 ELSE 1 :
                 i \in {Cardinality({i \in 1..Len(a) :
                                       \E j \in i..Len(a) : a[j] # b[j]})} })

\* the borrow from limb i of a - b: some lower limb of a is short and every
\* limb between is equal
BorrowFrom(a, b, i) ==
    IF \E j \in 1..(i - 1) :
           a[j] < Limb(b, j) /\ \A k \in (j + 1)..(i - 1) : a[k] = Limb(b, k)
    THEN 1 ELSE 0

\* a - b for a >= b
BigSub(a, b) ==
    IF b = <<>> THEN a
    ELSE BigStrip([i \in 1..Len(a) |->
                      (a[i] - Limb(b, i) - BorrowFrom(a, b, i) + Base) % Base] \o <<>>)

\* the integer a big natural stands for (only for values in the integer range)
RECURSIVE BigToInt(_)
BigToInt(a) == IF a = <<>> THEN 0 ELSE Head(a) + Base * BigToInt(Tail(a))

\* floor quotient and remainder of a by b (b nonzero): schoolbook long division
\* from the first limb at which the quotient can be nonzero, each quotient limb
\* found decimal digit by decimal digit
BigDigitFrom(r, b, k, unit) ==
    k + unit * Cardinality({m \in 1..9 : BigCmp(BigMulS(b, k + m * unit), r) <= 0})

BigDigit(r, b) ==
    Only({ BigDigitFrom(r, b, k1, 1) :
            k1 \in { Only({ BigDigitFrom(r, b, k2, 10) :
                     k2 \in { Only({ BigDigitFrom(r, b, k3, 100) :
                              k3 \in {BigDigitFrom(r, b, 0, 1000)} }) } }) } })

BigDivStep(a, b, i, r1, q, k) ==
    [r |-> IF k = 0 THEN r1 ELSE BigSub(r1, BigMulS(b, k)), q |-> <<k>> \o q]

RECURSIVE BigDivLoop(_, _, _, _, _)
BigDivLoop(a, b, i, r, q) ==
    IF i = 0 THEN [q |-> BigStrip(q), r |-> r]
    ELSE Only({ BigDivLoop(a, b, i - 1, st.r, st.q) :
                 st \in { BigDivStep(a, b, i, r1, q,
                              IF BigCmp(r1, b) < 0 THEN 0
                              ELSE BigDigit(r1, b)) :
                          r1 \in {BigStrip(<<a[i]>> \o r)} } })

BigDivMod(a, b) ==
    IF Len(a) < Len(b) THEN [q |-> <<>>, r |-> a]
    ELSE BigDivLoop(a, b, Len(a) - Len(b) + 1,
                    SubSeq(a, Len(a) - Len(b) + 2, Len(a)), <<>>)

(***************************************************************************)
(* Signed arbitrary-precision integers [neg, mag]; zero has neg = FALSE.   *)
(***************************************************************************)
ZMk(neg, mag) == [neg |-> neg /\ mag # <<>>, mag |-> mag]
ZOf(i) == IF i < 0 THEN ZMk(TRUE, BigOf(-i)) ELSE ZMk(FALSE, BigOf(i))
ZNeg(a) == ZMk(~a.neg, a.mag)
ZAdd(a, b) ==
    IF a.neg = b.neg THEN ZMk(a.neg, BigAdd(a.mag, b.mag))
    ELSE IF BigCmp(a.mag, b.mag) >= 0 THEN ZMk(a.neg, BigSub(a.mag, b.mag))
    ELSE ZMk(b.neg, BigSub(b.mag, a.mag))
ZSub(a, b) == ZAdd(a, ZNeg(b))
ZMul(a, b) == ZMk(a.neg # b.neg, BigMul(a.mag, b.mag))
ZMulBig(a, m) == ZMk(a.neg, BigMul(a.mag, m))
ZSign(a) == IF a.mag = <<>> THEN 0 ELSE IF a.neg THEN -1 ELSE 1
ZCmp(a, b) == ZSign(ZSub(a, b))

(***************************************************************************)
(* Exact rationals over the big integers: [n, d] with d a nonzero natural. *)
(* Not kept in lowest terms: compare with RCmp / REq, never with =.        *)
(***************************************************************************)
\* Common low zero limbs (a common factor Base^z) are cancelled.
RMk(n, d) ==
    IF n.mag = <<>> THEN [n |-> n, d |-> <<1>>]
    ELSE Only({ [n |-> [neg |-> n.neg, mag |-> SubSeq(n.mag, z + 1, Len(n.mag))],
                 d |-> SubSeq(d, z + 1, Len(d))] :
                 z \in {Cardinality({i \in 1..Len(d) :
                                       \A j \in 1..i : Limb(n.mag, j) = 0 /\ d[j] = 0})} })
ROfInt(i) == RMk(ZOf(i), BigOf(1))
\* the decimal literal n / d
RDec(n, d) == RMk(ZOf(n), BigOf(d))
RAdd(a, b) ==
    IF a.d = b.d THEN RMk(ZAdd(a.n, b.n), a.d)
    ELSE RMk(ZAdd(ZMulBig(a.n, b.d), ZMulBig(b.n, a.d)), BigMul(a.d, b.d))
RNeg(a) == RMk(ZNeg(a.n), a.d)
RSub(a, b) == RAdd(a, RNeg(b))
RMul(a, b) == RMk(ZMul(a.n, b.n), BigMul(a.d, b.d))
RIsZero(a) == a.n.mag = <<>>
\* a / b for b nonzero
RDiv(a, b) == RMk(ZMk(a.n.neg # b.n.neg, BigMul(a.n.mag, b.d)), BigMul(a.d, b.n.mag))
RCmp(a, b) == ZCmp(ZMulBig(a.n, b.d), ZMulBig(b.n, a.d))
REq(a, b) == RCmp(a, b) = 0
RMax(a, b) == IF RCmp(a, b) >= 0 THEN a ELSE b

(***************************************************************************)
(* Exact rationals over the integers, in lowest terms with d > 0: the      *)
(* money amounts and ratios of the gates and the payroll rules.            *)
(***************************************************************************)
Abs(i) == IF i < 0 THEN -i ELSE i

RECURSIVE Gcd(_, _)
Gcd(a, b) == IF b = 0 THEN a ELSE Gcd(b, a % b)

QMk(n, d) ==
    LET g == Gcd(Abs(n), Abs(d))
        s == IF d < 0 THEN -1 ELSE 1
    IN  [n |-> s * (n \div g), d |-> s * (d \div g)]
QOf(i) == [n |-> i, d |-> 1]
QAdd(a, b) ==
    LET g == Gcd(a.d, b.d)
    IN  QMk(a.n * (b.d \div g) + b.n * (a.d \div g), (a.d \div g) * b.d)
QNeg(a) == [n |-> -a.n, d |-> a.d]
QSub(a, b) == QAdd(a, QNeg(b))
QMul(a, b) ==
    LET g1 == Gcd(Abs(a.n), b.d)
        g2 == Gcd(Abs(b.n), a.d)
    IN  IF a.n = 0 \/ b.n = 0 THEN QOf(0)
        ELSE QMk((a.n \div g1) * (b.n \div g2), (a.d \div g2) * (b.d \div g1))
\* a / b for b nonzero
QDiv(a, b) == QMul(a, QMk(b.d, b.n))
QLt(a, b) == a.n * b.d < b.n * a.d
QLe(a, b) == a.n * b.d <= b.n * a.d
QMin(a, b) == IF QLe(a, b) THEN a ELSE b
QMax(a, b) == IF QLe(b, a) THEN a ELSE b
QToR(a) == RMk(ZOf(a.n), BigOf(a.d))

RECURSIVE QSum(_)
QSum(s) == IF s = <<>> THEN QOf(0) ELSE QAdd(Head(s), QSum(Tail(s)))

\* round(x, 3): the nearest multiple of 1/1000, a tie going to the even one
\* (Python's round), as a rational in lowest terms
Round3Of(neg, q, c) ==
    LET m == IF c > 0 \/ (c = 0 /\ q % 2 = 1) THEN q + 1 ELSE q
    IN  QMk(IF neg THEN -m ELSE m, 1000)

Round3(a) ==
    Only({ Round3Of(a.n.neg, BigToInt(dm.q), BigCmp(BigAdd(dm.r, dm.r), a.d)) :
            dm \in {BigDivMod(BigMul(a.n.mag, BigOf(1000)), a.d)} })

(***************************************************************************)
(* Strings.  A Python str is a TLA+ string; lower() and the substring test *)
(* `kw in s` are computed character by character.                          *)
(***************************************************************************)
Upper == "ABCDEFGHIJKLMNOPQRSTUVWXYZ"
Lower == "abcdefghijklmnopqrstuvwxyz"

LowerChar(c) ==
    IF \E i \in 1..26 : SubSeq(Upper, i, i) = c
    THEN LET i == CHOOSE i \in 1..26 : SubSeq(Upper, i, i) = c
         IN  SubSeq(Lower, i, i)
    ELSE c

RECURSIVE lower(_)
lower(s) ==
    IF Len(s) = 0 THEN ""
    ELSE LowerChar(SubSeq(s, 1, 1)) \o lower(SubSeq(s, 2, Len(s)))

\* kw in s
Contains(kw, s) ==
    \E i \in 1..(Len(s) - Len(kw) + 1) : SubSeq(s, i, i + Len(kw) - 1) = kw

(***************************************************************************)
(* state_config.py: the rating authorities                                 *)
(***************************************************************************)
GeorgiaConfig ==
    [cls |-> "GeorgiaConfig", state_code |-> "GA", state_name |-> "Georgia",
     split_point |-> QOf(21500), sal_per_claim |-> QOf(176000),
     sal_multiple_claim |-> QOf(352000),
     g_value |-> QMk(1265, 100), s_value |-> QOf(3162500),
     is_era_state |-> TRUE, era_discount |-> QMk(30, 100),
     is_ncci_state |-> TRUE, bureau_name |-> "NCCI"]

CaliforniaConfig ==
    [cls |-> "CaliforniaConfig", state_code |-> "CA", state_name |-> "California",
     split_point |-> QOf(15000), sal_per_claim |-> QOf(200000),
     sal_multiple_claim |-> QOf(400000),
     g_value |-> QOf(0), s_value |-> QOf(0),
     is_era_state |-> FALSE, era_discount |-> QMk(30, 100),
     is_ncci_state |-> FALSE, bureau_name |-> "WCIRB"]

NewYorkConfig ==
    [cls |-> "NewYorkConfig", state_code |-> "NY", state_name |-> "New York",
     split_point |-> QOf(19500), sal_per_claim |-> QOf(180000),
     sal_multiple_claim |-> QOf(360000),
     g_value |-> QOf(0), s_value |-> QOf(0),
     is_era_state |-> FALSE, era_discount |-> QMk(30, 100),
     is_ncci_state |-> FALSE, bureau_name |-> "NYCIRB"]

PennsylvaniaConfig ==
    [cls |-> "PennsylvaniaConfig", state_code |-> "PA", state_name |-> "Pennsylvania",
     split_point |-> QOf(19500), sal_per_claim |-> QOf(175000),
     sal_multiple_claim |-> QOf(350000),
     g_value |-> QOf(0), s_value |-> QOf(0),
     is_era_state |-> FALSE, era_discount |-> QMk(30, 100),
     is_ncci_state |-> FALSE, bureau_name |-> "PCRB"]

STATE_CONFIGS ==
    [code \in {"GA", "CA", "NY", "PA"} |->
        CASE code = "GA" -> GeorgiaConfig
          [] code = "CA" -> CaliforniaConfig
          [] code = "NY" -> NewYorkConfig
          [] code = "PA" -> PennsylvaniaConfig]

\* A call either returns a value, [ok |-> TRUE, ...], or raises,
\* [ok |-> FALSE, error |-> <exception class>].
Raise(e) == [ok |-> FALSE, error |-> e]

\* list(STATE_CONFIGS.keys()), in the dict's order, and its rendering in text
StateCodes == <<"GA", "CA", "NY", "PA">>

StateCodesRepr ==
    "['" \o StateCodes[1] \o "', '" \o StateCodes[2] \o "', '" \o StateCodes[3]
        \o "', '" \o StateCodes[4] \o "']"

\* line 305: raise ValueError(f"State {state_code} not yet implemented. ...")
StateNotImplemented(state_code) ==
    [ok |-> FALSE, error |-> "ValueError",
     message |-> "State " \o state_code \o " not yet implemented. Available: "
                    \o StateCodesRepr]

\* variant of the lookup that ignores the case of the code (sensitivity of C19)
get_state_config_AnyCase(state_code) ==
    IF \A code \in DOMAIN STATE_CONFIGS : lower(code) # lower(state_code)
    THEN StateNotImplemented(state_code)
    ELSE [ok |-> TRUE,
          config |-> STATE_CONFIGS[CHOOSE code \in DOMAIN STATE_CONFIGS :
                                       lower(code) = lower(state_code)]]

get_state_config(state_code) ==
    IF state_code \notin DOMAIN STATE_CONFIGS
    THEN StateNotImplemented(state_code)
    ELSE [ok |-> TRUE, config |-> STATE_CONFIGS[state_code]]

\* Kp has a floor of 7,500
KpMin == 7500

\* lines 75-76
Kp_numerator(E, S) == RMul(E, RAdd(E, RMul(RDec(1028, 100000), S)))
Kp_denominator(E, S) == RAdd(RMul(RDec(75, 100), E), RMul(RDec(8153, 10000), S))
\* lines 80-81
Ke_numerator(E, S) == RMul(E, RAdd(E, RMul(RDec(204, 10000), S)))
Ke_denominator(E, S) == RAdd(RMul(RDec(1, 10), E), RMul(RDec(5109, 10000), S))

\* variant of Kp without the floor (sensitivity of C8)
KpOf_Unclamped(Kp_num, Kp_den) == RDiv(Kp_num, Kp_den)

\* line 77: Kp = max(7500.0, Kp_numerator / Kp_denominator)
KpOf(Kp_num, Kp_den) == RMax(ROfInt(KpMin), RDiv(Kp_num, Kp_den))
\* line 82: Ke = Ke_numerator / Ke_denominator
KeOf(Ke_num, Ke_den) == RDiv(Ke_num, Ke_den)

\* lines 85-88: B = Kp; W = (E + Ke) / (E + Kp); a division by zero raises
WBOf(E, Kp_den, Ke_den, Kp, Ke) ==
    IF RIsZero(Kp_den) \/ RIsZero(Ke_den) \/ RIsZero(RAdd(E, Kp))
    THEN Raise("ZeroDivisionError")
    ELSE [ok |-> TRUE, W |-> RDiv(RAdd(E, Ke), RAdd(E, Kp)), B |-> Kp]

WBFrom(E, Kp_num, Kp_den, Ke_num, Ke_den) ==
    Only({ WBOf(E, Kp_den, Ke_den, Kp, Ke) :
            Kp \in {KpOf(Kp_num, Kp_den)}, Ke \in {KeOf(Ke_num, Ke_den)} })

\* StateConfig._calculate_w_b_ncci; E is a big rational
calculate_w_b_ncci(config, E) ==
    Only({ WBFrom(E, Kp_num, Kp_den, Ke_num, Ke_den) :
            Kp_num \in {Kp_numerator(E, QToR(config.s_value))},
            Kp_den \in {Kp_denominator(E, QToR(config.s_value))},
            Ke_num \in {Ke_numerator(E, QToR(config.s_value))},
            Ke_den \in {Ke_denominator(E, QToR(config.s_value))} })

\* variant of calculate_w_and_b that falls back to the NCCI formulas for an
\* authority without an override (sensitivity of C20)
calculate_w_and_b_NcciFallback(config, expected_losses) ==
    IF config.cls \in {"CaliforniaConfig", "NewYorkConfig"}
    THEN Raise("NotImplementedError")
    ELSE calculate_w_b_ncci(config, expected_losses)

\* StateConfig.calculate_w_and_b, with the overrides of CaliforniaConfig and
\* NewYorkConfig
calculate_w_and_b(config, expected_losses) ==
    IF config.cls \in {"CaliforniaConfig", "NewYorkConfig"}
    THEN Raise("NotImplementedError")
    ELSE IF config.is_ncci_state
    THEN calculate_w_b_ncci(config, expected_losses)
    ELSE Raise("NotImplementedError")

apply_sal_cap(config, claim_total) == QMin(claim_total, config.sal_per_claim)

(***************************************************************************)
(* mod_engine.py: data models.  A Claim, a ClassCodeExposure, a PolicyInfo *)
(* is a record of its dataclass fields; every float field is a rational;   *)
(* a date is its day number; Optional[date] is << >> (None) or <<day>>.    *)
(***************************************************************************)
incurred_total(claim) == QAdd(claim.incurred_indemnity, claim.incurred_medical)

\* variant of is_medical_only that looks at the injury code alone (sensitivity of C4)
is_medical_only_CodeOnly(claim) == claim.injury_code = "6"

is_medical_only(claim) ==
    claim.injury_code = "6" \/ claim.incurred_indemnity.n = 0

\* variant of is_denied that reads the status alone (sensitivity of C11)
is_denied_StatusOnly(claim) == Contains("denied", lower(claim.status))

is_denied(claim) ==
    Contains("denied", lower(claim.status))
        \/ Contains("non-comp", lower(claim.claim_notes))

has_subrogation(claim) ==
    \E kw \in {"subro", "recovery", "third party", "reimbursement"} :
        Contains(kw, lower(claim.claim_notes))

has_sif_credit(claim) ==
    \E kw \in {"sif", "second injury fund", "state fund"} :
        Contains(kw, lower(claim.claim_notes))

expected_losses(exp) == QMul(QDiv(exp.payroll, QOf(100)), exp.elr)
expected_primary(exp) == QMul(expected_losses(exp), exp.d_ratio)
expected_excess(exp) == QSub(expected_losses(exp), expected_primary(exp))

mod_applied_correctly(policy_info) ==
    policy_info.anniversary_rating_date = policy_info.policy_effective_date

\* a float rendered in text: numerator/denominator (stands for Python's repr)
FloatStr(q) == IF q.d = 1 THEN ToString(q.n) ELSE ToString(q.n) \o "/" \o ToString(q.d)

DetectedLeak(leak_type, description, affected_items, current_value, corrected_value, dollar_impact, recovery_probability, evidence) ==
    [leak_type |-> leak_type, description |-> description,
     affected_items |-> affected_items, current_value |-> current_value,
     corrected_value |-> corrected_value, dollar_impact |-> dollar_impact,
     recovery_probability |-> recovery_probability, evidence |-> evidence]

\* variant of DetectedLeak.expected_recovery that counts the whole impact
\* (sensitivity of C14)
expected_recovery_WholeImpact(leak) == leak.dollar_impact

\* DetectedLeak.expected_recovery
expected_recovery(leak) == QMul(leak.dollar_impact, leak.recovery_probability)

\* ProcessedClaim.total_ratable_loss
total_ratable_loss(pclaim) == QAdd(pclaim.primary_loss, pclaim.excess_loss)

(***************************************************************************)
(* preprocess_claims: the three gates                                      *)
(***************************************************************************)
\* variant of the grouping step that replaces a date's list instead of appending
\* to it (sensitivity of C1)
GroupAppend_Overwrite(claims_by_date, claim) ==
    IF \E i \in 1..Len(claims_by_date) :
            claims_by_date[i].accident_date = claim.accident_date
    THEN [i \in 1..Len(claims_by_date) |->
            IF claims_by_date[i].accident_date = claim.accident_date
            THEN [claims_by_date[i] EXCEPT !.date_claims = <<claim>>]
            ELSE claims_by_date[i]]
    ELSE Append(claims_by_date,
                [accident_date |-> claim.accident_date, date_claims |-> <<claim>>])

\* claims_by_date.setdefault(claim.accident_date, []).append(claim), the dict
\* as the sequence of its (key, value) items in insertion order
GroupAppend(claims_by_date, claim) ==
    IF \E i \in 1..Len(claims_by_date) :
            claims_by_date[i].accident_date = claim.accident_date
    THEN [i \in 1..Len(claims_by_date) |->
            IF claims_by_date[i].accident_date = claim.accident_date
            THEN [claims_by_date[i] EXCEPT !.date_claims = Append(@, claim)]
            ELSE claims_by_date[i]]
    ELSE Append(claims_by_date,
                [accident_date |-> claim.accident_date, date_claims |-> <<claim>>])

RECURSIVE GroupByDate(_, _)
GroupByDate(claims_by_date, claims) ==
    IF claims = <<>> THEN claims_by_date
    ELSE GroupByDate(GroupAppend(claims_by_date, Head(claims)), Tail(claims))

RECURSIVE SumIncurred(_)
SumIncurred(date_claims) ==
    IF date_claims = <<>> THEN QOf(0)
    ELSE QAdd(incurred_total(Head(date_claims)), SumIncurred(Tail(date_claims)))

\* variant of the ratio that also caps a group whose sum equals the cap
\* (sensitivity of C2)
FrequencyRatio_CapInclusive(date_claims, config) ==
    LET total_before_cap == SumIncurred(date_claims)
        cap == config.sal_multiple_claim
    IN  IF Len(date_claims) > 1 /\ QLe(cap, total_before_cap)
        THEN [ratio |-> QDiv(cap, total_before_cap), frequency_cap_applied |-> TRUE]
        ELSE [ratio |-> QOf(1), frequency_cap_applied |-> FALSE]

\* lines 218-231: the frequency ratio of one accident-date group
FrequencyRatio(date_claims, config) ==
    LET total_before_cap == SumIncurred(date_claims)
        cap == config.sal_multiple_claim
    IN  IF Len(date_claims) > 1
        THEN IF QLt(cap, total_before_cap)
             THEN [ratio |-> QDiv(cap, total_before_cap),
                   frequency_cap_applied |-> TRUE]
             ELSE [ratio |-> QOf(1), frequency_cap_applied |-> FALSE]
        ELSE [ratio |-> QOf(1), frequency_cap_applied |-> FALSE]

\* lines 234-253, GATE 1: ERA
EraGate(claim, config) ==
    IF config.is_era_state /\ is_medical_only(claim)
    THEN LET era_ratable == QMul(incurred_total(claim), config.era_discount)
         IN  [era_ratable |-> era_ratable, era_applied |-> TRUE,
              leaks |->
                IF QLt(era_ratable, incurred_total(claim))
                THEN <<DetectedLeak("ERA_MEDICAL_ONLY",
                        "Med-only claim " \o claim.claim_number
                            \o " missing 70% discount",
                        <<claim.claim_number>>,
                        incurred_total(claim),
                        era_ratable,
                        QSub(incurred_total(claim), era_ratable),
                        QMk(95, 100),
                        "NCCI Experience Rating Plan Manual Rule 2-E-1")>>
                ELSE <<>>]
    ELSE [era_ratable |-> incurred_total(claim), era_applied |-> FALSE,
          leaks |-> <<>>]

\* variant of the SAL gate that compares the cap with the raw incurred total
\* (sensitivity of C5)
SalGate_AgainstRaw(claim, config, era_ratable) ==
    LET sal_capped == apply_sal_cap(config, era_ratable)
        sal_applied == QLt(config.sal_per_claim, incurred_total(claim))
    IN  [sal_capped |-> sal_capped, sal_applied |-> sal_applied,
         leaks |->
            IF sal_applied
            THEN <<DetectedLeak("SPLIT_POINT_CAP",
                    "Claim " \o claim.claim_number \o " exceeds SAL cap",
                    <<claim.claim_number>>,
                    era_ratable,
                    sal_capped,
                    QSub(era_ratable, sal_capped),
                    QMk(99, 100),
                    "State Per Claim Accident Limitation = $"
                        \o FloatStr(config.sal_per_claim))>>
            ELSE <<>>]

\* lines 255-269, GATE 2: SAL
SalGate(claim, config, era_ratable) ==
    LET sal_capped == apply_sal_cap(config, era_ratable)
        sal_applied == QLt(sal_capped, era_ratable)
    IN  [sal_capped |-> sal_capped, sal_applied |-> sal_applied,
         leaks |->
            IF sal_applied
            THEN <<DetectedLeak("SPLIT_POINT_CAP",
                    "Claim " \o claim.claim_number \o " exceeds SAL cap",
                    <<claim.claim_number>>,
                    era_ratable,
                    sal_capped,
                    QSub(era_ratable, sal_capped),
                    QMk(99, 100),
                    "State Per Claim Accident Limitation = $"
                        \o FloatStr(config.sal_per_claim))>>
            ELSE <<>>]

\* variant of gate 3 that leaves the capped amount unscaled (sensitivity of C27)
FrequencyAdjust_Unscaled(sal_capped, ratio) == sal_capped

\* lines 271-272, GATE 3: frequency cap
FrequencyAdjust(sal_capped, ratio) == QMul(sal_capped, ratio)

\* lines 274-276: split into primary / excess
PrimaryLoss(frequency_adjusted, config) == QMin(frequency_adjusted, config.split_point)
\* variant of the excess without the floor at zero (sensitivity of C3)
ExcessLoss_Unfloored(frequency_adjusted, config) ==
    QSub(frequency_adjusted, config.split_point)

ExcessLoss(frequency_adjusted, config) ==
    QMax(QOf(0), QSub(frequency_adjusted, config.split_point))

\* the ProcessedClaim dataclass
ProcessedClaim(original_claim, era_applied_, era_ratable_amount, sal_applied_, sal_capped_amount, frequency_cap_applied_, frequency_adjusted_amount, primary_loss_, excess_loss_) ==
    [original_claim |-> original_claim,
     era_applied |-> era_applied_,
     era_ratable_amount |-> era_ratable_amount,
     sal_applied |-> sal_applied_,
     sal_capped_amount |-> sal_capped_amount,
     frequency_cap_applied |-> frequency_cap_applied_,
     frequency_adjusted_amount |-> frequency_adjusted_amount,
     primary_loss |-> primary_loss_,
     excess_loss |-> excess_loss_]

\* lines 233-288: the body of the loop over one group's claims, for one claim
GateClaim(claim, config, fr) ==
    LET era == EraGate(claim, config)
        sal == SalGate(claim, config, era.era_ratable)
        frequency_adjusted == FrequencyAdjust(sal.sal_capped, fr.ratio)
    IN  [processed |->
            ProcessedClaim(claim, era.era_applied, era.era_ratable,
                           sal.sal_applied, sal.sal_capped,
                           fr.frequency_cap_applied, frequency_adjusted,
                           PrimaryLoss(frequency_adjusted, config),
                           ExcessLoss(frequency_adjusted, config)),
         leaks |-> era.leaks \o sal.leaks]

RECURSIVE GateGroup(_, _, _, _)
GateGroup(date_claims, config, fr, acc) ==
    IF date_claims = <<>> THEN acc
    ELSE LET g == GateClaim(Head(date_claims), config, fr)
         IN  GateGroup(Tail(date_claims), config, fr,
                       [processed |-> Append(acc.processed, g.processed),
                        leaks |-> acc.leaks \o g.leaks])

RECURSIVE GateGroups(_, _, _)
GateGroups(claims_by_date, config, acc) ==
    IF claims_by_date = <<>> THEN acc
    ELSE LET date_claims == Head(claims_by_date).date_claims
         IN  GateGroups(Tail(claims_by_date), config,
                        GateGroup(date_claims, config,
                                  FrequencyRatio(date_claims, config), acc))

\* preprocess_claims(claims, config) -> (processed_claims, detected_leaks)
preprocess_claims(claims, config) ==
    GateGroups(GroupByDate(<<>>, claims), config,
               [processed |-> <<>>, leaks |-> <<>>])

(***************************************************************************)
(* adjust_payroll_for_leaks                                                *)
(***************************************************************************)
\* variant of the overtime exclusion that excludes the straight-time share 1/rate
\* (sensitivity of C16)
OvertimeExclusion_StraightTime(exp) ==
    QMul(exp.overtime_earnings, QDiv(QOf(1), exp.overtime_rate))

\* lines 322-329: the excluded share of the overtime earnings (rate nonzero)
OvertimeExclusion(exp) ==
    IF exp.overtime_rate = QMk(3, 2) THEN QMul(exp.overtime_earnings, QMk(1, 3))
    ELSE IF exp.overtime_rate = QOf(2) THEN QMul(exp.overtime_earnings, QMk(1, 2))
    ELSE IF exp.overtime_rate = QMk(5, 2)
    THEN QMul(exp.overtime_earnings, QDiv(QMk(3, 2), QMk(5, 2)))
    ELSE QMul(exp.overtime_earnings,
              QDiv(QSub(exp.overtime_rate, QOf(1)), exp.overtime_rate))

\* lines 320-403: the leaks of one exposure, rule by rule
PayrollLeaks(exp, exec_officer_state_cap) ==
    (IF QLt(QOf(0), exp.overtime_earnings)
     THEN <<DetectedLeak("OVERTIME_PREMIUM",
                "Class " \o exp.class_code \o ": OT premium at "
                    \o FloatStr(exp.overtime_rate) \o "x not excluded",
                <<exp.class_code>>,
                exp.payroll,
                QSub(exp.payroll, OvertimeExclusion(exp)),
                OvertimeExclusion(exp),
                QMk(90, 100),
                "NCCI Basic Manual Rule 2-C-2 - Overtime exclusion")>>
     ELSE <<>>)
    \o
    (IF QLt(exec_officer_state_cap, exp.executive_officer_payroll)
     THEN <<DetectedLeak("EXEC_OFFICER_CAP",
                "Executive officer payroll exceeds state cap",
                <<exp.class_code>>,
                exp.executive_officer_payroll,
                exec_officer_state_cap,
                QSub(exp.executive_officer_payroll, exec_officer_state_cap),
                QMk(99, 100),
                "State maximum weekly payroll = $"
                    \o FloatStr(exec_officer_state_cap))>>
     ELSE <<>>)
    \o
    (IF QLt(QOf(0), exp.severance_pay)
     THEN <<DetectedLeak("SEVERANCE_PAY",
                "Class " \o exp.class_code \o ": Severance pay included",
                <<exp.class_code>>,
                exp.payroll,
                QSub(exp.payroll, exp.severance_pay),
                exp.severance_pay,
                QMk(85, 100),
                "NCCI Basic Manual Rule 2-B-2-e - Severance pay excluded")>>
     ELSE <<>>)
    \o
    (IF QLt(QOf(0), exp.travel_reimbursements)
     THEN <<DetectedLeak("TRAVEL_EXPENSE",
                "Class " \o exp.class_code \o ": Travel reimbursements included",
                <<exp.class_code>>,
                exp.payroll,
                QSub(exp.payroll, exp.travel_reimbursements),
                exp.travel_reimbursements,
                QMk(80, 100),
                "NCCI Basic Manual Rule 2-B-2-h - Expense reimbursements excluded")>>
     ELSE <<>>)
    \o
    (IF QLt(QOf(0), exp.subcontractor_payroll)
     THEN <<DetectedLeak("SUBCONTRACTOR_DUPES",
                "Subcontractor payroll double-counted (have COI)",
                <<exp.class_code>>,
                exp.payroll,
                QSub(exp.payroll, exp.subcontractor_payroll),
                exp.subcontractor_payroll,
                QMk(75, 100),
                "Certificates of Insurance on file for subcontractors")>>
     ELSE <<>>)

\* variant of the corrections that leaves the severance pay in the payroll
\* (sensitivity of C15)
Corrections_SeveranceKept(exp, exec_officer_state_cap) ==
    LET c1 == IF QLt(QOf(0), exp.overtime_earnings)
              THEN OvertimeExclusion(exp) ELSE QOf(0)
        c2 == IF QLt(exec_officer_state_cap, exp.executive_officer_payroll)
              THEN QAdd(c1, QSub(exp.executive_officer_payroll, exec_officer_state_cap))
              ELSE c1
        c4 == IF QLt(QOf(0), exp.travel_reimbursements)
              THEN QAdd(c2, exp.travel_reimbursements) ELSE c2
    IN  IF QLt(QOf(0), exp.subcontractor_payroll)
        THEN QAdd(c4, exp.subcontractor_payroll) ELSE c4

\* corrections: 0.0, then += the exclusion of each triggered rule
Corrections(exp, exec_officer_state_cap) ==
    LET c0 == QOf(0)
        c1 == IF QLt(QOf(0), exp.overtime_earnings)
              THEN QAdd(c0, OvertimeExclusion(exp)) ELSE c0
        c2 == IF QLt(exec_officer_state_cap, exp.executive_officer_payroll)
              THEN QAdd(c1, QSub(exp.executive_officer_payroll, exec_officer_state_cap))
              ELSE c1
        c3 == IF QLt(QOf(0), exp.severance_pay)
              THEN QAdd(c2, exp.severance_pay) ELSE c2
        c4 == IF QLt(QOf(0), exp.travel_reimbursements)
              THEN QAdd(c3, exp.travel_reimbursements) ELSE c3
        c5 == IF QLt(QOf(0), exp.subcontractor_payroll)
              THEN QAdd(c4, exp.subcontractor_payroll) ELSE c4
    IN  c5

\* variant of the adjusted exposure that keeps the input's component fields
\* (sensitivity of C17)
AdjustedExposure_ComponentsKept(exp, corrections) ==
    [exp EXCEPT !.payroll = QSub(exp.payroll, corrections)]

\* lines 405-412: ClassCodeExposure(class_code, description, payroll - corrections,
\* elr, d_ratio), the other fields at their dataclass defaults
AdjustedExposure(exp, corrections) ==
    [class_code |-> exp.class_code,
     description |-> exp.description,
     payroll |-> QSub(exp.payroll, corrections),
     elr |-> exp.elr,
     d_ratio |-> exp.d_ratio,
     overtime_earnings |-> QOf(0),
     overtime_rate |-> QMk(3, 2),
     executive_officer_payroll |-> QOf(0),
     severance_pay |-> QOf(0),
     travel_reimbursements |-> QOf(0),
     subcontractor_payroll |-> QOf(0)]

\* the overtime rule divides by the rate in its general branch
OvertimeRaises(exp) ==
    QLt(QOf(0), exp.overtime_earnings) /\ exp.overtime_rate.n = 0

RECURSIVE AdjustLoop(_, _, _)
AdjustLoop(exposures, exec_officer_state_cap, acc) ==
    IF exposures = <<>> THEN acc
    ELSE LET exp == Head(exposures)
             leaks == PayrollLeaks(exp, exec_officer_state_cap)
             corrections == Corrections(exp, exec_officer_state_cap)
         IN  IF OvertimeRaises(exp) THEN Raise("ZeroDivisionError")
             ELSE AdjustLoop(Tail(exposures), exec_officer_state_cap,
                    [ok |-> TRUE,
                     adjusted |-> Append(acc.adjusted,
                                         AdjustedExposure(exp, corrections)),
                     leaks |-> acc.leaks \o leaks])

\* adjust_payroll_for_leaks(exposures, config, exec_officer_state_cap)
\*   -> (adjusted_exposures, detected_leaks)
adjust_payroll_for_leaks(exposures, config, exec_officer_state_cap) ==
    AdjustLoop(exposures, exec_officer_state_cap,
               [ok |-> TRUE, adjusted |-> <<>>, leaks |-> <<>>])

(***************************************************************************)
(* detect_claim_leaks                                                      *)
(***************************************************************************)
\* f"{claim.accident_date}_{claim.claimant_name}_{claim.incurred_total}"
Signature(claim) ==
    ToString(claim.accident_date) \o "_" \o claim.claimant_name \o "_"
        \o FloatStr(incurred_total(claim))

\* variant of the inactivity test that counts the 180th day (sensitivity of C22)
InactiveTooLong_From180(days_inactive) == days_inactive >= 180

\* line 456: if days_inactive > 180
InactiveTooLong(days_inactive) == days_inactive > 180

\* lines 440-492: the subrogation, zombie, denial and SIF leaks of one claim
ClaimRuleLeaks(claim, valuation_date) ==
    (IF has_subrogation(claim) /\ QLt(QOf(0), incurred_total(claim))
     THEN <<DetectedLeak("SUBROGATION",
                "Claim " \o claim.claim_number
                    \o " has subrogation recovery not credited",
                <<claim.claim_number>>,
                incurred_total(claim),
                QOf(0),
                QMul(incurred_total(claim), QMk(25, 100)),
                QMk(70, 100),
                "Claim notes: " \o claim.claim_notes)>>
     ELSE <<>>)
    \o
    (IF claim.status = "Open" /\ claim.last_payment_date # <<>>
     THEN LET days_inactive == valuation_date - claim.last_payment_date[1]
          IN  IF InactiveTooLong(days_inactive)
              THEN <<DetectedLeak("ZOMBIE_RESERVES",
                        "Claim " \o claim.claim_number \o " open "
                            \o ToString(days_inactive) \o " days with no activity",
                        <<claim.claim_number>>,
                        QAdd(claim.reserves_indemnity, claim.reserves_medical),
                        QOf(0),
                        QAdd(claim.reserves_indemnity, claim.reserves_medical),
                        QMk(60, 100),
                        "Last payment: " \o ToString(claim.last_payment_date[1])
                            \o ", No activity for " \o ToString(days_inactive)
                            \o " days")>>
              ELSE <<>>
     ELSE <<>>)
    \o
    (IF is_denied(claim) /\ QLt(QOf(0), incurred_total(claim))
     THEN <<DetectedLeak("RULE_4C_DENIAL",
                "Denied claim " \o claim.claim_number \o " still in mod",
                <<claim.claim_number>>,
                incurred_total(claim),
                QOf(0),
                incurred_total(claim),
                QMk(95, 100),
                "NCCI Experience Rating Plan Manual Rule 4-C")>>
     ELSE <<>>)
    \o
    (IF has_sif_credit(claim)
     THEN <<DetectedLeak("SIF_CREDIT",
                "Claim " \o claim.claim_number \o " has SIF credit not applied",
                <<claim.claim_number>>,
                incurred_total(claim),
                QMul(incurred_total(claim), QMk(50, 100)),
                QMul(incurred_total(claim), QMk(50, 100)),
                QMk(65, 100),
                "Claim notes: " \o claim.claim_notes)>>
     ELSE <<>>)

\* lines 494-509: claim_signatures is the sequence of (signature, claim_number)
\* items of the dict
DuplicateLeaks(claim, claim_signatures) ==
    IF \E i \in 1..Len(claim_signatures) :
            claim_signatures[i].signature = Signature(claim)
    THEN LET i == CHOOSE i \in 1..Len(claim_signatures) :
                    claim_signatures[i].signature = Signature(claim)
             original_claim == claim_signatures[i].claim_number
         IN  <<DetectedLeak("DUPLICATE_CLAIMS",
                "Claims " \o original_claim \o " and " \o claim.claim_number
                    \o " are duplicates",
                <<original_claim, claim.claim_number>>,
                QMul(incurred_total(claim), QOf(2)),
                incurred_total(claim),
                incurred_total(claim),
                QMk(90, 100),
                "Same date, claimant, and amount")>>
    ELSE <<>>

\* variant of the dict update that records the latest claim of a signature
\* (sensitivity of C21)
RecordSignature_Latest(claim, claim_signatures) ==
    Append(SelectSeq(claim_signatures,
                     LAMBDA item : item.signature # Signature(claim)),
           [signature |-> Signature(claim), claim_number |-> claim.claim_number])

\* lines 508-509: claim_signatures[signature] = claim.claim_number, on the else
\* branch only
RecordSignature(claim, claim_signatures) ==
    IF \E i \in 1..Len(claim_signatures) :
            claim_signatures[i].signature = Signature(claim)
    THEN claim_signatures
    ELSE Append(claim_signatures,
                [signature |-> Signature(claim), claim_number |-> claim.claim_number])

RECURSIVE DetectLoop(_, _, _, _)
DetectLoop(claims, valuation_date, claim_signatures, leaks) ==
    IF claims = <<>> THEN leaks
    ELSE DetectLoop(Tail(claims), valuation_date,
                    RecordSignature(Head(claims), claim_signatures),
                    leaks \o ClaimRuleLeaks(Head(claims), valuation_date)
                          \o DuplicateLeaks(Head(claims), claim_signatures))

\* detect_claim_leaks(claims, valuation_date) -> leaks
detect_claim_leaks(claims, valuation_date) ==
    DetectLoop(claims, valuation_date, <<>>, <<>>)

(***************************************************************************)
(* calculate_experience_mod                                                *)
(***************************************************************************)
\* sum(<generator>): the generator as the sequence of its values
sum(amounts) == QSum(amounts)

\* variant of the numerator with the weights of actual and expected excess
\* exchanged (sensitivity of C6)
ModNumerator_WeightsSwapped(actual_primary, actual_excess, expected_excess_, W, B) ==
    RAdd(RAdd(RAdd(actual_primary, RMul(RSub(ROfInt(1), W), actual_excess)),
              RMul(W, expected_excess_)),
         B)

\* variant of the denominator without the ballast (sensitivity of C7)
ModDenominator_NoBallast(expected_primary_, expected_excess_, B) ==
    RAdd(expected_primary_, expected_excess_)

\* lines 593-594: the formula
ModNumerator(actual_primary, actual_excess, expected_excess_, W, B) ==
    RAdd(RAdd(RAdd(actual_primary, RMul(W, actual_excess)),
              RMul(RSub(ROfInt(1), W), expected_excess_)),
         B)

ModDenominator(expected_primary_, expected_excess_, B) ==
    RAdd(RAdd(expected_primary_, expected_excess_), B)

\* lines 596-602: the quotient, 1.000 on a zero denominator, rounded to 3 decimals
ModValue(numerator, denominator) ==
    Only({ Round3(mod) :
            mod \in { IF RIsZero(denominator) THEN ROfInt(1)
                      ELSE RDiv(numerator, denominator) } })

\* lines 604-618: the ModCalculationResult
ModCalculationResult(config, total_expected, expected_primary_, expected_excess_, actual_primary, actual_excess, wb, numerator, denominator) ==
    [ok |-> TRUE,
     state |-> config.state_code,
     total_expected_losses |-> total_expected,
     expected_primary |-> expected_primary_,
     expected_excess |-> expected_excess_,
     actual_primary |-> actual_primary,
     actual_excess |-> actual_excess,
     W |-> wb.W,
     B |-> wb.B,
     split_point |-> config.split_point,
     sal_cap |-> config.sal_per_claim,
     numerator |-> numerator,
     denominator |-> denominator,
     experience_mod |-> ModValue(numerator, denominator)]

\* lines 593-618, given the sums and (W, B)
ModFormula(config, total_expected, expected_primary_, expected_excess_, actual_primary, actual_excess, wb) ==
    Only({ ModCalculationResult(config, total_expected, expected_primary_,
                                expected_excess_, actual_primary, actual_excess,
                                wb, numerator, denominator) :
            numerator \in {ModNumerator(QToR(actual_primary), QToR(actual_excess),
                                        QToR(expected_excess_), wb.W, wb.B)},
            denominator \in {ModDenominator(QToR(expected_primary_),
                                            QToR(expected_excess_), wb.B)} })

\* lines 589-618, given the sums: calculate_w_and_b raises or the formula runs
ModFromSums(config, total_expected, expected_primary_, expected_excess_, actual_primary, actual_excess) ==
    Only({ IF ~wb.ok THEN wb
           ELSE ModFormula(config, total_expected, expected_primary_,
                           expected_excess_, actual_primary, actual_excess, wb) :
            wb \in { Only({ calculate_w_and_b(config, E) :
                            E \in {QToR(total_expected)} }) } })

\* calculate_experience_mod(exposures, processed_claims, config)
\*   -> ModCalculationResult, or the error calculate_w_and_b raises
calculate_experience_mod(exposures, processed_claims, config) ==
    Only({ ModFromSums(config, total_expected, expected_primary_, expected_excess_,
                       actual_primary, actual_excess) :
            total_expected \in
                {sum([i \in 1..Len(exposures) |-> expected_losses(exposures[i])])},
            expected_primary_ \in
                {sum([i \in 1..Len(exposures) |-> expected_primary(exposures[i])])},
            expected_excess_ \in
                {sum([i \in 1..Len(exposures) |-> expected_excess(exposures[i])])},
            actual_primary \in
                {sum([i \in 1..Len(processed_claims) |->
                        processed_claims[i].primary_loss])},
            actual_excess \in
                {sum([i \in 1..Len(processed_claims) |->
                        processed_claims[i].excess_loss])} })

(***************************************************************************)
(* run_full_audit as a state machine: one action per step of the function  *)
(***************************************************************************)
VARIABLES
    pc,                          \* the step run_full_audit is at
    policy_info, raw_exposures, raw_claims, valuation_date, exec_officer_cap,
    config,
    current_processed_claims, current_mod,
    adjusted_exposures, payroll_leaks,
    corrected_processed_claims, claim_processing_leaks,
    claim_leaks,
    final_claims,
    corrected_mod,
    report,
    error                        \* the exception the call ended with, or "None"

\* one call of preprocess_claims, statement by statement
VARIABLES
    gate_pc,                     \* the statement preprocess_claims is at
    gate_config, claims,         \* its arguments
    claim_index,                 \* the first loop's position in claims
    claims_by_date,
    group_index,                 \* the second loop's position in claims_by_date
    ratio, frequency_cap_applied,
    member_index,                \* the inner loop's position in date_claims
    era_ratable, era_applied,
    sal_capped, sal_applied,
    processed, leaks

\* one call of config.calculate_w_and_b
VARIABLES
    wb_pc, wb_config, wb_expected_losses, wb_result

\* one call of adjust_payroll_for_leaks, one pass of its loop at a time
VARIABLES
    pay_pc,                      \* "loop", "returned" or "raised"
    pay_exposures, pay_cap,      \* its arguments exposures, exec_officer_state_cap
    exp_index,                   \* the loop's position in exposures
    pay_adjusted, pay_leaks,     \* its lists adjusted and leaks
    pay_error

\* one call of detect_claim_leaks, one pass of its loop at a time
VARIABLES
    det_pc,                      \* "loop" or "returned"
    det_claims, det_valuation_date,  \* its arguments claims, valuation_date
    det_index,                   \* the loop's position in claims
    det_signatures,              \* its dict claim_signatures, as a list of items
    det_leaks                    \* its list leaks

\* two calls of run_full_audit in progress at once, each with its own frame
VARIABLES
    par_pc,                      \* for each call, the step it is at
    par_inputs,                  \* for each call, its arguments
    par_locals,                  \* for each call, its local variables
    par_heap                     \* the StateConfig instances built so far

inputs == <<policy_info, raw_exposures, raw_claims, valuation_date, exec_officer_cap>>
locals == <<config, current_processed_claims, current_mod, adjusted_exposures,
            payroll_leaks, corrected_processed_claims, claim_processing_leaks,
            claim_leaks, final_claims, corrected_mod, report, error>>
audit_vars == <<pc, inputs, locals>>
gate_vars == <<gate_pc, gate_config, claims, claim_index, claims_by_date,
               group_index, ratio, frequency_cap_applied, member_index,
               era_ratable, era_applied, sal_capped, sal_applied, processed, leaks>>
wb_vars == <<wb_pc, wb_config, wb_expected_losses, wb_result>>
pay_vars == <<pay_pc, pay_exposures, pay_cap, exp_index, pay_adjusted, pay_leaks,
              pay_error>>
det_vars == <<det_pc, det_claims, det_valuation_date, det_index, det_signatures,
              det_leaks>>
par_vars == <<par_pc, par_inputs, par_locals, par_heap>>
vars == <<audit_vars, gate_vars, wb_vars, pay_vars, det_vars, par_vars>>

\* a local not yet assigned
Unset == "Unset"

(***************************************************************************)
(* The inputs the model draws from                                         *)
(***************************************************************************)
MaxClaims == 2

Claim(claim_number, accident_date, kind) ==
    [claim_number |-> claim_number,
     accident_date |-> accident_date,
     claimant_name |-> kind.claimant_name,
     injury_code |-> kind.injury_code,
     incurred_indemnity |-> QOf(kind.incurred_indemnity),
     incurred_medical |-> QOf(kind.incurred_medical),
     paid_indemnity |-> QOf(0),
     paid_medical |-> QOf(0),
     reserves_indemnity |-> QOf(kind.reserves_indemnity),
     reserves_medical |-> QOf(0),
     status |-> kind.status,
     last_payment_date |-> kind.last_payment_date,
     claim_notes |-> kind.claim_notes]

ClaimKind(claimant_name, injury_code, incurred_indemnity, incurred_medical, reserves_indemnity, status, last_payment_date, claim_notes) ==
    [claimant_name |-> claimant_name, injury_code |-> injury_code,
     incurred_indemnity |-> incurred_indemnity,
     incurred_medical |-> incurred_medical,
     reserves_indemnity |-> reserves_indemnity, status |-> status,
     last_payment_date |-> last_payment_date, claim_notes |-> claim_notes]

AuditClaimKinds ==
    { ClaimKind("Lee", "4", 100000, 0, 0, "Closed", <<>>, ""),
      ClaimKind("Kim", "4", 300000, 0, 0, "Denied", <<>>, ""),
      ClaimKind("Roy", "6", 0, 1000, 0, "Closed", <<>>, ""),
      ClaimKind("Ann", "5", 30000, 5000, 0, "Open", <<>>, "Ruled NON-COMP by board"),
      ClaimKind("Max", "3", 200000, 60000, 40000, "Open", <<500>>, "subro pending") }

AccidentDates == {1, 2}

ClaimNumber(i) == "CLM-" \o ToString(i)

\* every claim list of n claims, the i-th numbered CLM-i; the days being
\* interchangeable, the first claim is on day 1
ClaimLists(kinds, n) ==
    { [i \in 1..n |-> Claim(ClaimNumber(i), f[i][1], f[i][2])] :
        f \in {g \in [1..n -> AccidentDates \X kinds] : n > 0 => g[1][1] = 1} }

Exposure(class_code, payroll, elr, d_ratio, overtime_earnings, overtime_rate, executive_officer_payroll, severance_pay) ==
    [class_code |-> class_code, description |-> "class " \o class_code,
     payroll |-> QOf(payroll), elr |-> elr, d_ratio |-> d_ratio,
     overtime_earnings |-> QOf(overtime_earnings),
     overtime_rate |-> overtime_rate,
     executive_officer_payroll |-> QOf(executive_officer_payroll),
     severance_pay |-> QOf(severance_pay),
     travel_reimbursements |-> QOf(0),
     subcontractor_payroll |-> QOf(0)]

Clerical == Exposure("8810", 100000, QMk(5, 100), QMk(40, 100), 0, QMk(3, 2), 0, 0)
Carpentry ==
    Exposure("5403", 2000000, QMk(2157, 1000), QMk(32, 100),
             9000, QMk(3, 2), 150000, 20000)

AuditExposureLists == { <<>>, <<Clerical>>, <<Clerical, Carpentry>> }

AuditStates == {"GA", "CA", "NY", "PA", "TX", "ga"}

Policy(state) ==
    [policy_number |-> "WC-1", policy_effective_date |-> 800,
     policy_expiration_date |-> 1165, anniversary_rating_date |-> 800,
     total_manual_premium |-> QOf(50000), total_standard_premium |-> QOf(50000),
     current_mod |-> QOf(1), state |-> state]

\* run_full_audit is called
AuditInit ==
    /\ pc = "start"
    /\ policy_info \in {Policy(st) : st \in AuditStates}
    /\ raw_exposures \in AuditExposureLists
    /\ raw_claims \in UNION {ClaimLists(AuditClaimKinds, n) : n \in 0..MaxClaims}
    /\ valuation_date = 1000
    /\ exec_officer_cap = QOf(100000)
    /\ config = Unset
    /\ current_processed_claims = Unset
    /\ current_mod = Unset
    /\ adjusted_exposures = Unset
    /\ payroll_leaks = Unset
    /\ corrected_processed_claims = Unset
    /\ claim_processing_leaks = Unset
    /\ claim_leaks = Unset
    /\ final_claims = Unset
    /\ corrected_mod = Unset
    /\ report = Unset
    /\ error = "None"

\* no call of run_full_audit in progress
AuditIdle ==
    /\ pc = "idle"
    /\ policy_info = Unset
    /\ raw_exposures = <<>>
    /\ raw_claims = <<>>
    /\ valuation_date = 1000
    /\ exec_officer_cap = QOf(100000)
    /\ config = Unset
    /\ current_processed_claims = Unset
    /\ current_mod = Unset
    /\ adjusted_exposures = Unset
    /\ payroll_leaks = Unset
    /\ corrected_processed_claims = Unset
    /\ claim_processing_leaks = Unset
    /\ claim_leaks = Unset
    /\ final_claims = Unset
    /\ corrected_mod = Unset
    /\ report = Unset
    /\ error = "None"

\* the locals of preprocess_claims before its first statement
GateLocalsInit ==
    /\ claim_index = 1
    /\ claims_by_date = <<>>
    /\ group_index = 1
    /\ ratio = QOf(1)
    /\ frequency_cap_applied = FALSE
    /\ member_index = 1
    /\ era_ratable = QOf(0)
    /\ era_applied = FALSE
    /\ sal_capped = QOf(0)
    /\ sal_applied = FALSE
    /\ processed = <<>>
    /\ leaks = <<>>

\* no separate call of preprocess_claims in progress
GateIdle ==
    /\ gate_pc = "idle"
    /\ gate_config = Unset
    /\ claims = <<>>
    /\ GateLocalsInit

\* no separate call of calculate_w_and_b in progress
WBIdle ==
    /\ wb_pc = "idle"
    /\ wb_config = Unset
    /\ wb_expected_losses = QOf(0)
    /\ wb_result = Unset

\* no separate call of adjust_payroll_for_leaks in progress
PayIdle ==
    /\ pay_pc = "idle"
    /\ pay_exposures = <<>>
    /\ pay_cap = QOf(100000)
    /\ exp_index = 1
    /\ pay_adjusted = <<>>
    /\ pay_leaks = <<>>
    /\ pay_error = "None"

\* no separate call of detect_claim_leaks in progress
DetIdle ==
    /\ det_pc = "idle"
    /\ det_claims = <<>>
    /\ det_valuation_date = 1000
    /\ det_index = 1
    /\ det_signatures = <<>>
    /\ det_leaks = <<>>

\* no concurrent calls of run_full_audit in progress
ParIdle ==
    /\ par_pc = <<>>
    /\ par_inputs = <<>>
    /\ par_locals = <<>>
    /\ par_heap = <<>>

Init == AuditInit /\ GateIdle /\ WBIdle /\ PayIdle /\ DetIdle /\ ParIdle

\* line 693: config = get_state_config(policy_info.state)
LoadConfig ==
    /\ pc = "start"
    /\ UNCHANGED <<gate_vars, wb_vars, pay_vars, det_vars, par_vars>>
    /\ LET r == get_state_config(policy_info.state)
       IN  IF r.ok
           THEN /\ config' = r.config
                /\ pc' = "current_claims"
                /\ UNCHANGED error
           ELSE /\ error' = r.error
                /\ pc' = "raised"
                /\ UNCHANGED config
    /\ UNCHANGED <<inputs, current_processed_claims, current_mod,
                   adjusted_exposures, payroll_leaks, corrected_processed_claims,
                   claim_processing_leaks, claim_leaks, final_claims,
                   corrected_mod, report>>

\* line 697: current_processed_claims, _ = preprocess_claims(raw_claims, config)
CurrentPreprocess ==
    /\ pc = "current_claims"
    /\ UNCHANGED <<gate_vars, wb_vars, pay_vars, det_vars, par_vars>>
    /\ current_processed_claims' = preprocess_claims(raw_claims, config).processed
    /\ pc' = "current_mod"
    /\ UNCHANGED <<inputs, config, current_mod, adjusted_exposures, payroll_leaks,
                   corrected_processed_claims, claim_processing_leaks, claim_leaks,
                   final_claims, corrected_mod, report, error>>

\* line 698: current_mod = calculate_experience_mod(raw_exposures,
\*                                                  current_processed_claims, config)
CurrentMod ==
    /\ pc = "current_mod"
    /\ UNCHANGED <<gate_vars, wb_vars, pay_vars, det_vars, par_vars>>
    /\ LET r == calculate_experience_mod(raw_exposures, current_processed_claims,
                                         config)
       IN  IF r.ok
           THEN /\ current_mod' = r
                /\ pc' = "adjust_payroll"
                /\ UNCHANGED error
           ELSE /\ error' = r.error
                /\ pc' = "raised"
                /\ UNCHANGED current_mod
    /\ UNCHANGED <<inputs, config, current_processed_claims, adjusted_exposures,
                   payroll_leaks, corrected_processed_claims,
                   claim_processing_leaks, claim_leaks, final_claims,
                   corrected_mod, report>>

\* lines 701-705: adjusted_exposures, payroll_leaks = adjust_payroll_for_leaks(...)
AdjustPayroll ==
    /\ pc = "adjust_payroll"
    /\ UNCHANGED <<gate_vars, wb_vars, pay_vars, det_vars, par_vars>>
    /\ LET r == adjust_payroll_for_leaks(raw_exposures, config, exec_officer_cap)
       IN  IF r.ok
           THEN /\ adjusted_exposures' = r.adjusted
                /\ payroll_leaks' = r.leaks
                /\ pc' = "corrected_claims"
                /\ UNCHANGED error
           ELSE /\ error' = r.error
                /\ pc' = "raised"
                /\ UNCHANGED <<adjusted_exposures, payroll_leaks>>
    /\ UNCHANGED <<inputs, config, current_processed_claims, current_mod,
                   corrected_processed_claims, claim_processing_leaks,
                   claim_leaks, final_claims, corrected_mod, report>>

\* line 708: corrected_processed_claims, claim_processing_leaks =
\*               preprocess_claims(raw_claims, config)
CorrectedPreprocess ==
    /\ pc = "corrected_claims"
    /\ UNCHANGED <<gate_vars, wb_vars, pay_vars, det_vars, par_vars>>
    /\ LET r == preprocess_claims(raw_claims, config)
       IN  /\ corrected_processed_claims' = r.processed
           /\ claim_processing_leaks' = r.leaks
    /\ pc' = "claim_leaks"
    /\ UNCHANGED <<inputs, config, current_processed_claims, current_mod,
                   adjusted_exposures, payroll_leaks, claim_leaks, final_claims,
                   corrected_mod, report, error>>

\* line 711: claim_leaks = detect_claim_leaks(raw_claims, valuation_date)
DetectClaimLeaks ==
    /\ pc = "claim_leaks"
    /\ UNCHANGED <<gate_vars, wb_vars, pay_vars, det_vars, par_vars>>
    /\ claim_leaks' = detect_claim_leaks(raw_claims, valuation_date)
    /\ pc' = "final_claims"
    /\ UNCHANGED <<inputs, config, current_processed_claims, current_mod,
                   adjusted_exposures, payroll_leaks, corrected_processed_claims,
                   claim_processing_leaks, final_claims, corrected_mod, report,
                   error>>

\* variant of the filter that keeps closed claims only (sensitivity of C9)
KeepInCorrected_ClosedOnly(c) == lower(c.original_claim.status) = "closed"

\* line 717: the condition of the comprehension
KeepInCorrected(c) == ~is_denied(c.original_claim)

\* variant of the filter that also deletes the denied claims from the caller's
\* list (sensitivity of C25)
RemoveFlagged_InPlace ==
    /\ pc = "final_claims"
    /\ UNCHANGED <<gate_vars, wb_vars, pay_vars, det_vars, par_vars>>
    /\ final_claims' = SelectSeq(corrected_processed_claims, KeepInCorrected)
    /\ raw_claims' = SelectSeq(raw_claims, LAMBDA c : ~is_denied(c))
    /\ pc' = "corrected_mod"
    /\ UNCHANGED <<policy_info, raw_exposures, valuation_date, exec_officer_cap,
                   config, current_processed_claims, current_mod,
                   adjusted_exposures, payroll_leaks, corrected_processed_claims,
                   claim_processing_leaks, claim_leaks, corrected_mod, report,
                   error>>

\* lines 715-719: final_claims = [c for c in corrected_processed_claims
\*                                if not c.original_claim.is_denied]
RemoveFlagged ==
    /\ pc = "final_claims"
    /\ UNCHANGED <<gate_vars, wb_vars, pay_vars, det_vars, par_vars>>
    /\ final_claims' = SelectSeq(corrected_processed_claims, KeepInCorrected)
    /\ pc' = "corrected_mod"
    /\ UNCHANGED <<inputs, config, current_processed_claims, current_mod,
                   adjusted_exposures, payroll_leaks, corrected_processed_claims,
                   claim_processing_leaks, claim_leaks, corrected_mod, report,
                   error>>

\* line 722: corrected_mod = calculate_experience_mod(adjusted_exposures,
\*                                                    final_claims, config)
CorrectedMod ==
    /\ pc = "corrected_mod"
    /\ UNCHANGED <<gate_vars, wb_vars, pay_vars, det_vars, par_vars>>
    /\ LET r == calculate_experience_mod(adjusted_exposures, final_claims, config)
       IN  IF r.ok
           THEN /\ corrected_mod' = r
                /\ pc' = "compile"
                /\ UNCHANGED error
           ELSE /\ error' = r.error
                /\ pc' = "raised"
                /\ UNCHANGED corrected_mod
    /\ UNCHANGED <<inputs, config, current_processed_claims, current_mod,
                   adjusted_exposures, payroll_leaks, corrected_processed_claims,
                   claim_processing_leaks, claim_leaks, final_claims, report>>

\* lines 725-742: the AuditReport
AuditReportOf(policy_info_, current_mod_, corrected_mod_, all_leaks) ==
    LET mod_reduction == QSub(current_mod_.experience_mod,
                              corrected_mod_.experience_mod)
    IN  [policy_info |-> policy_info_,
         current_mod_calc |-> current_mod_,
         corrected_mod_calc |-> corrected_mod_,
         detected_leaks |-> all_leaks,
         total_leak_impact |->
            sum([i \in 1..Len(all_leaks) |-> all_leaks[i].dollar_impact]),
         expected_recovery |->
            sum([i \in 1..Len(all_leaks) |-> expected_recovery(all_leaks[i])]),
         mod_reduction |-> mod_reduction,
         premium_savings |-> QMul(mod_reduction, policy_info_.total_manual_premium)]

AuditReport(all_leaks) ==
    AuditReportOf(policy_info, current_mod, corrected_mod, all_leaks)

\* variant of the merge that leaves the gate pipeline's leaks out (sensitivity
\* of C12)
AllLeaks_GateLeaksLeftOut(payroll_leaks_, claim_processing_leaks_, claim_leaks_) ==
    payroll_leaks_ \o claim_leaks_

\* variant of the merge that lists the claim detector's leaks first (sensitivity
\* of C13)
AllLeaks_ClaimLeaksFirst(payroll_leaks_, claim_processing_leaks_, claim_leaks_) ==
    claim_leaks_ \o payroll_leaks_ \o claim_processing_leaks_

\* line 725: all_leaks = payroll_leaks + claim_processing_leaks + claim_leaks
AllLeaks(payroll_leaks_, claim_processing_leaks_, claim_leaks_) ==
    payroll_leaks_ \o claim_processing_leaks_ \o claim_leaks_

CompileReport ==
    /\ pc = "compile"
    /\ UNCHANGED <<gate_vars, wb_vars, pay_vars, det_vars, par_vars>>
    /\ report' = AuditReport(AllLeaks(payroll_leaks, claim_processing_leaks, claim_leaks))
    /\ pc' = "returned"
    /\ UNCHANGED <<inputs, config, current_processed_claims, current_mod,
                   adjusted_exposures, payroll_leaks, corrected_processed_claims,
                   claim_processing_leaks, claim_leaks, final_claims,
                   corrected_mod, error>>

Next ==
    \/ LoadConfig
    \/ CurrentPreprocess
    \/ CurrentMod
    \/ AdjustPayroll
    \/ CorrectedPreprocess
    \/ DetectClaimLeaks
    \/ RemoveFlagged
    \/ CorrectedMod
    \/ CompileReport

Spec == Init /\ [][Next]_vars

(***************************************************************************)
(* run_full_audit on a Georgia policy whose exposures and claims trigger   *)
(* the leak rules                                                          *)
(***************************************************************************)
MaxLeakClaims == 2

\* status or notes that indicate a denial, with and without incurred amounts;
\* notes that also carry the subrogation and SIF keywords; a medical-only claim;
\* a claim above the accident limitation, open and inactive
LeakClaimKinds ==
    { ClaimKind("Kim", "4", 300000, 0, 0, "Denied", <<>>, ""),
      ClaimKind("Nil", "4", 0, 0, 0, "DENIED", <<>>, ""),
      ClaimKind("Ann", "5", 30000, 5000, 10000, "Open", <<500>>,
                "Subro lien; ruled NON-COMP by board; SIF credit"),
      ClaimKind("Roy", "6", 0, 1000, 0, "Closed", <<>>, ""),
      ClaimKind("Max", "3", 200000, 60000, 40000, "Open", <<900>>, "third party") }

Hauling ==
    Exposure("7219", 800000, QMk(4, 100), QMk(25, 100), 6000, QOf(2), 0, 0)

LeakExposures == <<Carpentry, Clerical, Hauling>>

\* the locals of run_full_audit before its first statement
AuditLocalsInit ==
    /\ config = Unset
    /\ current_processed_claims = Unset
    /\ current_mod = Unset
    /\ adjusted_exposures = Unset
    /\ payroll_leaks = Unset
    /\ corrected_processed_claims = Unset
    /\ claim_processing_leaks = Unset
    /\ claim_leaks = Unset
    /\ final_claims = Unset
    /\ corrected_mod = Unset
    /\ report = Unset
    /\ error = "None"

LeakAuditInit ==
    /\ pc = "start"
    /\ policy_info = Policy("GA")
    /\ raw_exposures = LeakExposures
    /\ raw_claims \in UNION {ClaimLists(LeakClaimKinds, n) : n \in 0..MaxLeakClaims}
    /\ valuation_date = 1000
    /\ exec_officer_cap = QOf(100000)
    /\ AuditLocalsInit

InitLeakAudit == LeakAuditInit /\ GateIdle /\ WBIdle /\ PayIdle /\ DetIdle /\ ParIdle

SpecLeakAudit == InitLeakAudit /\ [][Next]_vars

(***************************************************************************)
(* run_full_audit on Georgia policies whose anniversary rating date is, or *)
(* is not, the effective date                                              *)
(***************************************************************************)
\* the effective date of Policy and a date fifty days later
RatingDates == {Policy("GA").policy_effective_date,
                Policy("GA").policy_effective_date + 50}

ArdAuditInit ==
    /\ pc = "start"
    /\ policy_info \in {[Policy("GA") EXCEPT !.anniversary_rating_date = d] :
                          d \in RatingDates}
    /\ raw_exposures = LeakExposures
    /\ raw_claims \in UNION {ClaimLists(LeakClaimKinds, n) : n \in 0..MaxLeakClaims}
    /\ valuation_date = 1000
    /\ exec_officer_cap = QOf(100000)
    /\ AuditLocalsInit

InitArdAudit == ArdAuditInit /\ GateIdle /\ WBIdle /\ PayIdle /\ DetIdle /\ ParIdle

SpecArdAudit == InitArdAudit /\ [][Next]_vars

(***************************************************************************)
(* preprocess_claims as a state machine: one action per statement group of *)
(* lines 208-290, so that the order of the gates is visible in the states  *)
(***************************************************************************)
MaxGateClaims == 3

GateClaimKinds ==
    { ClaimKind("Kim", "4", 200000, 0, 0, "Closed", <<>>, ""),
      ClaimKind("Roy", "6", 0, 1000, 0, "Closed", <<>>, ""),
      ClaimKind("Ann", "5", 0, 600000, 0, "Open", <<>>, ""),
      ClaimKind("Max", "6", 40000, 460000, 0, "Open", <<>>, ""),
      ClaimKind("Nil", "6", 0, 0, 0, "Closed", <<>>, "") }

GateConfigs == {GeorgiaConfig, CaliforniaConfig, NewYorkConfig, PennsylvaniaConfig}

\* preprocess_claims(claims, config) is called
GateInit ==
    /\ gate_pc = "grouping"
    /\ gate_config \in GateConfigs
    /\ claims \in UNION {ClaimLists(GateClaimKinds, n) : n \in 0..MaxGateClaims}
    /\ GateLocalsInit

InitGates == AuditIdle /\ GateInit /\ WBIdle /\ PayIdle /\ DetIdle /\ ParIdle

\* the claim the inner loop is at
date_claims == claims_by_date[group_index].date_claims
claim == date_claims[member_index]

\* lines 213-214, one iteration of the grouping loop
GroupClaim ==
    /\ gate_pc = "grouping"
    /\ claim_index <= Len(claims)
    /\ claims_by_date' = GroupAppend(claims_by_date, claims[claim_index])
    /\ claim_index' = claim_index + 1
    /\ UNCHANGED <<gate_pc, gate_config, claims, group_index, ratio,
                   frequency_cap_applied, member_index, era_ratable, era_applied,
                   sal_capped, sal_applied, processed, leaks>>
    /\ UNCHANGED <<audit_vars, wb_vars, pay_vars, det_vars, par_vars>>

\* the grouping loop is exhausted
EndGrouping ==
    /\ gate_pc = "grouping"
    /\ claim_index > Len(claims)
    /\ gate_pc' = "groups"
    /\ UNCHANGED <<gate_config, claims, claim_index, claims_by_date, group_index,
                   ratio, frequency_cap_applied, member_index, era_ratable,
                   era_applied, sal_capped, sal_applied, processed, leaks>>
    /\ UNCHANGED <<audit_vars, wb_vars, pay_vars, det_vars, par_vars>>

\* lines 216-231: the next group's ratio, before any of its claims is processed
GroupRatio ==
    /\ gate_pc = "groups"
    /\ group_index <= Len(claims_by_date)
    /\ \E fr \in {FrequencyRatio(date_claims, gate_config)} :
        /\ ratio' = fr.ratio
        /\ frequency_cap_applied' = fr.frequency_cap_applied
    /\ member_index' = 1
    /\ gate_pc' = "era"
    /\ UNCHANGED <<gate_config, claims, claim_index, claims_by_date, group_index,
                   era_ratable, era_applied, sal_capped, sal_applied, processed,
                   leaks>>
    /\ UNCHANGED <<audit_vars, wb_vars, pay_vars, det_vars, par_vars>>

\* lines 234-253, GATE 1
EraGateStep ==
    /\ gate_pc = "era"
    /\ \E era \in {EraGate(claim, gate_config)} :
        /\ era_ratable' = era.era_ratable
        /\ era_applied' = era.era_applied
        /\ leaks' = leaks \o era.leaks
    /\ gate_pc' = "sal"
    /\ UNCHANGED <<gate_config, claims, claim_index, claims_by_date, group_index,
                   ratio, frequency_cap_applied, member_index, sal_capped,
                   sal_applied, processed>>
    /\ UNCHANGED <<audit_vars, wb_vars, pay_vars, det_vars, par_vars>>

\* lines 255-269, GATE 2
SalGateStep ==
    /\ gate_pc = "sal"
    /\ \E sal \in {SalGate(claim, gate_config, era_ratable)} :
        /\ sal_capped' = sal.sal_capped
        /\ sal_applied' = sal.sal_applied
        /\ leaks' = leaks \o sal.leaks
    /\ gate_pc' = "frequency"
    /\ UNCHANGED <<gate_config, claims, claim_index, claims_by_date, group_index,
                   ratio, frequency_cap_applied, member_index, era_ratable,
                   era_applied, processed>>
    /\ UNCHANGED <<audit_vars, wb_vars, pay_vars, det_vars, par_vars>>

\* lines 271-288, GATE 3, the split and the append; then the next claim of the
\* group, or the next group
FrequencyGateStep ==
    /\ gate_pc = "frequency"
    /\ \E frequency_adjusted \in {FrequencyAdjust(sal_capped, ratio)} :
        processed' = Append(processed,
            ProcessedClaim(claim, era_applied, era_ratable, sal_applied,
                           sal_capped, frequency_cap_applied, frequency_adjusted,
                           PrimaryLoss(frequency_adjusted, gate_config),
                           ExcessLoss(frequency_adjusted, gate_config)))
    /\ IF member_index < Len(date_claims)
       THEN /\ member_index' = member_index + 1
            /\ gate_pc' = "era"
            /\ UNCHANGED group_index
       ELSE /\ group_index' = group_index + 1
            /\ gate_pc' = "groups"
            /\ UNCHANGED member_index
    /\ UNCHANGED <<gate_config, claims, claim_index, claims_by_date, ratio,
                   frequency_cap_applied, era_ratable, era_applied, sal_capped,
                   sal_applied, leaks>>
    /\ UNCHANGED <<audit_vars, wb_vars, pay_vars, det_vars, par_vars>>

\* line 290: return processed, leaks
GateReturn ==
    /\ gate_pc = "groups"
    /\ group_index > Len(claims_by_date)
    /\ gate_pc' = "returned"
    /\ UNCHANGED <<gate_config, claims, claim_index, claims_by_date, group_index,
                   ratio, frequency_cap_applied, member_index, era_ratable,
                   era_applied, sal_capped, sal_applied, processed, leaks>>
    /\ UNCHANGED <<audit_vars, wb_vars, pay_vars, det_vars, par_vars>>

NextGates ==
    \/ GroupClaim
    \/ EndGrouping
    \/ GroupRatio
    \/ EraGateStep
    \/ SalGateStep
    \/ FrequencyGateStep
    \/ GateReturn

SpecGates == InitGates /\ [][NextGates]_vars

(***************************************************************************)
(* config.calculate_w_and_b(expected_losses) on a grid of expected losses  *)
(***************************************************************************)
GridStep == 5000
GridSteps == 40

\* the grid, the dollars either side of the point where the quotient of Kp
\* crosses 7,500 under Georgia's S, and three large totals
ExpectedLossGrid ==
    {QOf(k * GridStep) : k \in 0..GridSteps}
        \cup {QOf(1), QOf(50), QMk(431, 100), QOf(126266), QOf(126267),
              QOf(1000000), QOf(10000000), QOf(100000000)}

WBInit ==
    /\ wb_pc = "call"
    /\ wb_config \in GateConfigs
    /\ wb_expected_losses \in ExpectedLossGrid
    /\ wb_result = Unset

InitWB == AuditIdle /\ GateIdle /\ WBInit /\ PayIdle /\ DetIdle /\ ParIdle

\* W, B = config.calculate_w_and_b(expected_losses), or the error it raises
CalculateWAndB ==
    /\ wb_pc = "call"
    /\ \E r \in {calculate_w_and_b(wb_config, QToR(wb_expected_losses))} :
        /\ wb_result' = r
        /\ wb_pc' = IF r.ok THEN "returned" ELSE "raised"
    /\ UNCHANGED <<wb_config, wb_expected_losses>>
    /\ UNCHANGED <<audit_vars, gate_vars, pay_vars, det_vars, par_vars>>

NextWB == CalculateWAndB

SpecWB == InitWB /\ [][NextWB]_vars

(***************************************************************************)
(* adjust_payroll_for_leaks, one pass of the loop over the exposures at a  *)
(* time                                                                    *)
(***************************************************************************)
MaxExposures == 2

PayrollExposure(class_code, payroll, overtime_earnings, overtime_rate, executive_officer_payroll, severance_pay, travel_reimbursements, subcontractor_payroll) ==
    [class_code |-> class_code, description |-> "class " \o class_code,
     payroll |-> QOf(payroll), elr |-> QMk(2157, 1000), d_ratio |-> QMk(32, 100),
     overtime_earnings |-> QOf(overtime_earnings),
     overtime_rate |-> overtime_rate,
     executive_officer_payroll |-> QOf(executive_officer_payroll),
     severance_pay |-> QOf(severance_pay),
     travel_reimbursements |-> QOf(travel_reimbursements),
     subcontractor_payroll |-> QOf(subcontractor_payroll)]

\* exposures with no component, with components that trigger no rule, with every
\* rule triggered, with each overtime rate the code distinguishes (1.5, 2.0, 2.5,
\* any other: 3, 1, 1/2, 0), with executive payroll below, at and above the cap,
\* and with components above the payroll itself
PayrollExposureKinds ==
    { PayrollExposure("8810", 100000, 0, QMk(3, 2), 0, 0, 0, 0),
      PayrollExposure("8811", 100000, 0, QOf(2), 50000, 0, 0, 0),
      PayrollExposure("5403", 500000, 9000, QMk(3, 2), 150000, 20000, 700, 30000),
      PayrollExposure("5404", 500000, 9000, QOf(2), 100000, 0, 0, 0),
      PayrollExposure("5405", 500000, 9000, QMk(5, 2), 0, 0, 700, 0),
      PayrollExposure("5406", 500000, 9000, QOf(3), 0, 0, 0, 0),
      PayrollExposure("5407", 500000, 9000, QOf(1), 0, 0, 0, 0),
      PayrollExposure("5408", 500000, 9000, QOf(0), 0, 0, 0, 0),
      PayrollExposure("5409", 500000, 9000, QMk(1, 2), 0, 0, 0, 0),
      PayrollExposure("7219", 10000, 0, QMk(3, 2), 0, 20000, 0, 0),
      PayrollExposure("7220", 0, 0, QMk(3, 2), 120000, 0, 0, 30000) }

PayrollCaps == {QOf(100000), QOf(120000)}

PayInit ==
    /\ pay_pc = "loop"
    /\ pay_exposures \in UNION {[1..n -> PayrollExposureKinds] : n \in 0..MaxExposures}
    /\ pay_cap \in PayrollCaps
    /\ exp_index = 1
    /\ pay_adjusted = <<>>
    /\ pay_leaks = <<>>
    /\ pay_error = "None"

InitPayroll == AuditIdle /\ GateIdle /\ WBIdle /\ PayInit /\ DetIdle /\ ParIdle

\* the exposure the loop is at
exp == pay_exposures[exp_index]

\* lines 316-414: one pass of `for exp in exposures`; the overtime rule's
\* division raises on a zero rate
AdjustExposure ==
    /\ pay_pc = "loop"
    /\ exp_index <= Len(pay_exposures)
    /\ IF OvertimeRaises(exp)
       THEN /\ pay_pc' = "raised"
            /\ pay_error' = "ZeroDivisionError"
            /\ UNCHANGED <<exp_index, pay_adjusted, pay_leaks>>
       ELSE /\ pay_leaks' = pay_leaks \o PayrollLeaks(exp, pay_cap)
            /\ pay_adjusted' =
                 Append(pay_adjusted, AdjustedExposure(exp, Corrections(exp, pay_cap)))
            /\ exp_index' = exp_index + 1
            /\ UNCHANGED <<pay_pc, pay_error>>
    /\ UNCHANGED <<pay_exposures, pay_cap>>
    /\ UNCHANGED <<audit_vars, gate_vars, wb_vars, det_vars, par_vars>>

\* line 416: return adjusted, leaks
PayrollReturn ==
    /\ pay_pc = "loop"
    /\ exp_index > Len(pay_exposures)
    /\ pay_pc' = "returned"
    /\ UNCHANGED <<pay_exposures, pay_cap, exp_index, pay_adjusted, pay_leaks,
                   pay_error>>
    /\ UNCHANGED <<audit_vars, gate_vars, wb_vars, det_vars, par_vars>>

NextPayroll ==
    \/ AdjustExposure
    \/ PayrollReturn

SpecPayroll == InitPayroll /\ [][NextPayroll]_vars

(***************************************************************************)
(* detect_claim_leaks, one pass of `for claim in claims` at a time         *)
(***************************************************************************)
MaxDetectClaims == 3

\* claims of one claimant with the same total from different parts, a different
\* total and a zero total, and of another claimant; open with the last payment
\* exactly 180 and 181 days before the valuation date, open with no payment,
\* closed and long inactive, and a status spelled "open"
DetectClaimKinds ==
    { ClaimKind("Ann", "5", 100, 0, 4000, "Open", <<820>>, ""),
      ClaimKind("Ann", "5", 0, 100, 4000, "Open", <<819>>, ""),
      ClaimKind("Ann", "5", 100, 50, 4000, "Closed", <<500>>, ""),
      ClaimKind("Bob", "5", 100, 0, 4000, "Open", <<>>, ""),
      ClaimKind("Ann", "5", 0, 0, 4000, "open", <<500>>, "") }

\* the claims carry medical reserves next to the indemnity reserves
DetectClaimLists(n) ==
    { [i \in 1..n |-> [list[i] EXCEPT !.reserves_medical = QOf(2500)]] :
        list \in ClaimLists(DetectClaimKinds, n) }

\* detect_claim_leaks(claims, valuation_date) is called: lines 436-437
DetectInit ==
    /\ det_pc = "loop"
    /\ det_claims \in UNION {DetectClaimLists(n) : n \in 0..MaxDetectClaims}
    /\ det_valuation_date = 1000
    /\ det_index = 1
    /\ det_signatures = <<>>
    /\ det_leaks = <<>>

InitDetect == AuditIdle /\ GateIdle /\ WBIdle /\ PayIdle /\ DetectInit /\ ParIdle

\* lines 439-509: one pass of the loop
DetectClaim ==
    /\ det_pc = "loop"
    /\ det_index <= Len(det_claims)
    /\ det_leaks' = det_leaks
                      \o ClaimRuleLeaks(det_claims[det_index], det_valuation_date)
                      \o DuplicateLeaks(det_claims[det_index], det_signatures)
    /\ det_signatures' = RecordSignature(det_claims[det_index], det_signatures)
    /\ det_index' = det_index + 1
    /\ UNCHANGED <<det_pc, det_claims, det_valuation_date>>
    /\ UNCHANGED <<audit_vars, gate_vars, wb_vars, pay_vars, par_vars>>

\* line 511: return leaks
DetectReturn ==
    /\ det_pc = "loop"
    /\ det_index > Len(det_claims)
    /\ det_pc' = "returned"
    /\ UNCHANGED <<det_claims, det_valuation_date, det_index, det_signatures,
                   det_leaks>>
    /\ UNCHANGED <<audit_vars, gate_vars, wb_vars, pay_vars, par_vars>>

NextDetect ==
    \/ DetectClaim
    \/ DetectReturn

SpecDetect == InitDetect /\ [][NextDetect]_vars

(***************************************************************************)
(* run_full_audit as one function of its arguments                         *)
(***************************************************************************)
\* lines 722-742, given the results of the steps before
RunReport(args, config_, cm, ap, cp, cl) ==
    Only({ IF com.ok
           THEN [ok |-> TRUE,
                 report |-> AuditReportOf(args.policy_info, cm, com,
                                          AllLeaks(ap.leaks, cp.leaks, cl))]
           ELSE Raise(com.error) :
            com \in {calculate_experience_mod(
                        ap.adjusted, SelectSeq(cp.processed, KeepInCorrected),
                        config_)} })

\* lines 701-742, given the current mod
RunCorrected(args, config_, cm) ==
    Only({ IF ap.ok
           THEN RunReport(args, config_, cm, ap,
                          preprocess_claims(args.raw_claims, config_),
                          detect_claim_leaks(args.raw_claims, args.valuation_date))
           ELSE Raise(ap.error) :
            ap \in {adjust_payroll_for_leaks(args.raw_exposures, config_,
                                             args.exec_officer_cap)} })

\* lines 697-742, given the rating authority
RunWithConfig(args, config_) ==
    Only({ IF cm.ok THEN RunCorrected(args, config_, cm) ELSE Raise(cm.error) :
            cm \in {calculate_experience_mod(
                        args.raw_exposures,
                        preprocess_claims(args.raw_claims, config_).processed,
                        config_)} })

\* run_full_audit(policy_info, raw_exposures, raw_claims, valuation_date,
\* exec_officer_cap): the report, or the error raised
run_full_audit(args) ==
    Only({ IF r.ok THEN RunWithConfig(args, r.config) ELSE Raise(r.error) :
            r \in {get_state_config(args.policy_info.state)} })

(***************************************************************************)
(* AuditReport.to_json and ModCalculationResult.to_dict.  The JSON object  *)
(* is the record of its members; a number is the value json.dumps prints.  *)
(***************************************************************************)
\* round(x, ndigits) with scale = 10^ndigits: the nearest multiple of 1/scale, a
\* tie going to the even one
RoundOf(neg, q, c, scale) ==
    RMk(ZMk(neg, IF c > 0 \/ (c = 0 /\ Limb(q, 1) % 2 = 1)
                 THEN BigAdd(q, BigOf(1)) ELSE q),
        BigOf(scale))

Round(a, scale) ==
    Only({ RoundOf(a.n.neg, dm.q, BigCmp(BigAdd(dm.r, dm.r), a.d), scale) :
            dm \in {BigDivMod(BigMul(a.n.mag, BigOf(scale)), a.d)} })

\* LeakType.<name>.value[1], lines 124-145
LeakTypeText(leak_type) ==
    CASE leak_type = "ERA_MEDICAL_ONLY" -> "ERA Med-Only Discount Missing"
      [] leak_type = "SUBROGATION" -> "Subrogation Recovery Not Credited"
      [] leak_type = "ZOMBIE_RESERVES" -> "Zombie Reserves (180+ days no activity)"
      [] leak_type = "OVERTIME_PREMIUM" -> "Overtime Premium Included"
      [] leak_type = "EXEC_OFFICER_CAP" -> "Executive Officer Payroll Exceeds Cap"
      [] leak_type = "RULE_4C_DENIAL" -> "Denied Claims in Mod"
      [] leak_type = "SUBCONTRACTOR_DUPES" -> "Subcontractor Double-Dip"
      [] leak_type = "CLASS_CODE_8810" -> "Clerical Misclassification"
      [] leak_type = "ARD_MISMATCH" -> "ARD Mismatch (Illegal Mod Application)"
      [] leak_type = "SIF_CREDIT" -> "SIF Credit Not Applied"
      [] leak_type = "DUPLICATE_CLAIMS" -> "Duplicate Claims"
      [] leak_type = "SEVERANCE_PAY" -> "Severance Pay Included"
      [] leak_type = "OCIP_WRAUP" -> "OCIP/Wrap-up Double-Dip"
      [] leak_type = "VALUATION_WINDOW" -> "Valuation Window Error"
      [] leak_type = "TABLE_DRIFT" -> "Old ELR/D-Ratio Tables Used"
      [] leak_type = "DEDUCTIBLE_LEAK" -> "Claims Below Deductible in Mod"
      [] leak_type = "OWNERSHIP_ERROR" -> "Ownership Change Error"
      [] leak_type = "TRAVEL_EXPENSE" -> "Travel Expense Reimbursements"
      [] leak_type = "SPLIT_POINT_CAP" -> "Split Point Cap Not Applied"
      [] leak_type = "CLERICAL_MIXUP" -> "ERW vs Loss Run Data Mismatch"

\* ModCalculationResult.to_dict, lines 542-557
to_dict(m) ==
    [state |-> m.state,
     expected_losses |-> Round(QToR(m.total_expected_losses), 100),
     expected_primary |-> Round(QToR(m.expected_primary), 100),
     expected_excess |-> Round(QToR(m.expected_excess), 100),
     actual_primary |-> Round(QToR(m.actual_primary), 100),
     actual_excess |-> Round(QToR(m.actual_excess), 100),
     W |-> Round(m.W, 10000),
     B |-> Round(m.B, 100),
     split_point |-> m.split_point,
     sal_cap |-> m.sal_cap,
     numerator |-> Round(m.numerator, 100),
     denominator |-> Round(m.denominator, 100),
     experience_mod |-> Round(QToR(m.experience_mod), 1000)]

\* the member of "leaks" for one leak, lines 660-667
LeakJson(leak) ==
    [type |-> LeakTypeText(leak.leak_type),
     description |-> leak.description,
     affected_items |-> leak.affected_items,
     dollar_impact |-> Round(QToR(leak.dollar_impact), 100),
     recovery_probability |-> leak.recovery_probability,
     evidence |-> leak.evidence]

\* AuditReport.to_json, lines 646-671
to_json(r) ==
    [policy_number |-> r.policy_info.policy_number,
     state |-> r.policy_info.state,
     current_mod |-> r.current_mod_calc.experience_mod,
     corrected_mod |-> r.corrected_mod_calc.experience_mod,
     mod_reduction |-> r.mod_reduction,
     premium_savings |-> Round(QToR(r.premium_savings), 100),
     total_leaks_found |-> Len(r.detected_leaks),
     total_leak_impact |-> Round(QToR(r.total_leak_impact), 100),
     expected_recovery |-> Round(QToR(r.expected_recovery), 100),
     leaks |-> [i \in 1..Len(r.detected_leaks) |-> LeakJson(r.detected_leaks[i])],
     current_mod_breakdown |-> to_dict(r.current_mod_calc),
     corrected_mod_breakdown |-> to_dict(r.corrected_mod_calc)]

(***************************************************************************)
(* Two calls of run_full_audit whose steps interleave                      *)
(***************************************************************************)
Audits == {"first", "second"}

AuditArgs(policy_info_, raw_exposures_, raw_claims_) ==
    [policy_info |-> policy_info_, raw_exposures |-> raw_exposures_,
     raw_claims |-> raw_claims_, valuation_date |-> 1000,
     exec_officer_cap |-> QOf(100000)]

\* a Georgia policy with payroll, gate and claim leaks, a second Georgia policy
\* with other exposures and claims, a Pennsylvania policy and a Texas policy
ParallelArgs ==
    { AuditArgs(Policy("GA"), <<Carpentry, Clerical>>,
                <<Claim("CLM-1", 1,
                        ClaimKind("Ann", "5", 30000, 5000, 10000, "Open", <<500>>,
                                  "Subro lien; ruled NON-COMP by board; SIF credit")),
                  Claim("CLM-2", 1,
                        ClaimKind("Roy", "6", 0, 1000, 0, "Closed", <<>>, ""))>>),
      AuditArgs([Policy("GA") EXCEPT !.policy_number = "WC-2",
                                     !.total_manual_premium = QOf(80000)],
                <<Clerical>>,
                <<Claim("CLM-1", 1,
                        ClaimKind("Max", "3", 200000, 60000, 40000, "Open", <<900>>,
                                  "third party"))>>),
      AuditArgs([Policy("PA") EXCEPT !.policy_number = "WC-3"], <<Clerical>>, <<>>),
      AuditArgs([Policy("TX") EXCEPT !.policy_number = "WC-4"], <<Clerical>>, <<>>) }

\* the locals of a call before its first statement; `config` is a reference into
\* the instances built, 0 while it refers to none
FreshLocals ==
    [config |-> 0, current_processed_claims |-> Unset, current_mod |-> Unset,
     adjusted_exposures |-> Unset, payroll_leaks |-> Unset,
     corrected_processed_claims |-> Unset, claim_processing_leaks |-> Unset,
     claim_leaks |-> Unset, final_claims |-> Unset, corrected_mod |-> Unset,
     report |-> Unset, error |-> "None"]

ParallelInit ==
    /\ par_pc = [a \in Audits |-> "start"]
    /\ par_inputs \in [Audits -> ParallelArgs]
    /\ par_locals = [a \in Audits |-> FreshLocals]
    /\ par_heap = <<>>

InitParallel == AuditIdle /\ GateIdle /\ WBIdle /\ PayIdle /\ DetIdle /\ ParallelInit

\* variant of the instantiation that hands out an instance built before for the
\* same state (sensitivity of C24)
BuildConfig_Cached(heap, cfg) ==
    IF \E i \in 1..Len(heap) : heap[i] = cfg
    THEN [heap |-> heap, ref |-> CHOOSE i \in 1..Len(heap) : heap[i] = cfg]
    ELSE [heap |-> Append(heap, cfg), ref |-> Len(heap) + 1]

\* state_config.py line 307: STATE_CONFIGS[state_code]() builds a new instance
BuildConfig(heap, cfg) == [heap |-> Append(heap, cfg), ref |-> Len(heap) + 1]

\* variant of the reference to the rating authority that reads the instance
\* built last, by whichever call (sensitivity of C23)
ConfigOf_BuiltLast(a) == par_heap[Len(par_heap)]

\* the rating authority the call's local `config` refers to
ConfigOf(a) == par_heap[par_locals[a].config]

\* the call moves to a step with some locals assigned
ParGoto(a, step, new_locals) ==
    /\ par_pc' = [par_pc EXCEPT ![a] = step]
    /\ par_locals' = [par_locals EXCEPT ![a] = new_locals]
    /\ UNCHANGED par_inputs
    /\ UNCHANGED <<audit_vars, gate_vars, wb_vars, pay_vars, det_vars>>

\* the call raises
ParRaise(a, e) ==
    /\ ParGoto(a, "raised", [par_locals[a] EXCEPT !.error = e])
    /\ UNCHANGED par_heap

\* line 693
ParLoadConfig(a) ==
    /\ par_pc[a] = "start"
    /\ LET r == get_state_config(par_inputs[a].policy_info.state)
       IN  IF r.ok
           THEN LET b == BuildConfig(par_heap, r.config)
                IN  /\ par_heap' = b.heap
                    /\ ParGoto(a, "current_claims",
                               [par_locals[a] EXCEPT !.config = b.ref])
           ELSE ParRaise(a, r.error)

\* line 697
ParCurrentPreprocess(a) ==
    /\ par_pc[a] = "current_claims"
    /\ ParGoto(a, "current_mod",
               [par_locals[a] EXCEPT !.current_processed_claims =
                    preprocess_claims(par_inputs[a].raw_claims, ConfigOf(a)).processed])
    /\ UNCHANGED par_heap

\* line 698
ParCurrentMod(a) ==
    /\ par_pc[a] = "current_mod"
    /\ LET r == calculate_experience_mod(par_inputs[a].raw_exposures,
                    par_locals[a].current_processed_claims, ConfigOf(a))
       IN  IF r.ok
           THEN /\ ParGoto(a, "adjust_payroll",
                           [par_locals[a] EXCEPT !.current_mod = r])
                /\ UNCHANGED par_heap
           ELSE ParRaise(a, r.error)

\* lines 701-705
ParAdjustPayroll(a) ==
    /\ par_pc[a] = "adjust_payroll"
    /\ LET r == adjust_payroll_for_leaks(par_inputs[a].raw_exposures, ConfigOf(a),
                                         par_inputs[a].exec_officer_cap)
       IN  IF r.ok
           THEN /\ ParGoto(a, "corrected_claims",
                           [par_locals[a] EXCEPT !.adjusted_exposures = r.adjusted,
                                                 !.payroll_leaks = r.leaks])
                /\ UNCHANGED par_heap
           ELSE ParRaise(a, r.error)

\* line 708
ParCorrectedPreprocess(a) ==
    /\ par_pc[a] = "corrected_claims"
    /\ LET r == preprocess_claims(par_inputs[a].raw_claims, ConfigOf(a))
       IN  ParGoto(a, "claim_leaks",
                   [par_locals[a] EXCEPT !.corrected_processed_claims = r.processed,
                                         !.claim_processing_leaks = r.leaks])
    /\ UNCHANGED par_heap

\* line 711
ParDetectClaimLeaks(a) ==
    /\ par_pc[a] = "claim_leaks"
    /\ ParGoto(a, "final_claims",
               [par_locals[a] EXCEPT !.claim_leaks =
                    detect_claim_leaks(par_inputs[a].raw_claims,
                                       par_inputs[a].valuation_date)])
    /\ UNCHANGED par_heap

\* lines 715-719
ParRemoveFlagged(a) ==
    /\ par_pc[a] = "final_claims"
    /\ ParGoto(a, "corrected_mod",
               [par_locals[a] EXCEPT !.final_claims =
                    SelectSeq(par_locals[a].corrected_processed_claims,
                              KeepInCorrected)])
    /\ UNCHANGED par_heap

\* line 722
ParCorrectedMod(a) ==
    /\ par_pc[a] = "corrected_mod"
    /\ LET r == calculate_experience_mod(par_locals[a].adjusted_exposures,
                    par_locals[a].final_claims, ConfigOf(a))
       IN  IF r.ok
           THEN /\ ParGoto(a, "compile", [par_locals[a] EXCEPT !.corrected_mod = r])
                /\ UNCHANGED par_heap
           ELSE ParRaise(a, r.error)

\* lines 725-742
ParCompileReport(a) ==
    /\ par_pc[a] = "compile"
    /\ ParGoto(a, "returned",
               [par_locals[a] EXCEPT !.report =
                    AuditReportOf(par_inputs[a].policy_info,
                                  par_locals[a].current_mod,
                                  par_locals[a].corrected_mod,
                                  AllLeaks(par_locals[a].payroll_leaks,
                                           par_locals[a].claim_processing_leaks,
                                           par_locals[a].claim_leaks))])
    /\ UNCHANGED par_heap

\* the host runs a step of either call
NextParallel ==
    \E a \in Audits :
        \/ ParLoadConfig(a)
        \/ ParCurrentPreprocess(a)
        \/ ParCurrentMod(a)
        \/ ParAdjustPayroll(a)
        \/ ParCorrectedPreprocess(a)
        \/ ParDetectClaimLeaks(a)
        \/ ParRemoveFlagged(a)
        \/ ParCorrectedMod(a)
        \/ ParCompileReport(a)

SpecParallel == InitParallel /\ [][NextParallel]_vars

(***************************************************************************)
(* run_full_audit and, on their own, preprocess_claims,                    *)
(* adjust_payroll_for_leaks and detect_claim_leaks, each called once by a  *)
(* caller that keeps the arguments                                         *)
(***************************************************************************)
\* a denied claim and a medical-only claim on one day, or a claim above the
\* accident limitation with a duplicate
CallerClaimLists ==
    { <<Claim("CLM-1", 1, ClaimKind("Kim", "4", 300000, 0, 0, "Denied", <<>>, "")),
        Claim("CLM-2", 1, ClaimKind("Roy", "6", 0, 1000, 0, "Closed", <<>>, ""))>>,
      <<Claim("CLM-1", 1, ClaimKind("Max", "3", 200000, 60000, 40000, "Open",
                                    <<500>>, "third party")),
        Claim("CLM-2", 1, ClaimKind("Max", "3", 200000, 60000, 40000, "Open",
                                    <<500>>, "third party"))>> }

AllCallsInit ==
    /\ pc = "start"
    /\ policy_info = Policy("GA")
    /\ raw_exposures = <<Carpentry, Clerical>>
    /\ raw_claims \in CallerClaimLists
    /\ valuation_date = 1000
    /\ exec_officer_cap = QOf(100000)
    /\ AuditLocalsInit
    /\ gate_pc = "grouping"
    /\ gate_config = GeorgiaConfig
    /\ claims = raw_claims
    /\ GateLocalsInit
    /\ pay_pc = "loop"
    /\ pay_exposures = raw_exposures
    /\ pay_cap = exec_officer_cap
    /\ exp_index = 1
    /\ pay_adjusted = <<>>
    /\ pay_leaks = <<>>
    /\ pay_error = "None"
    /\ det_pc = "loop"
    /\ det_claims = raw_claims
    /\ det_valuation_date = valuation_date
    /\ det_index = 1
    /\ det_signatures = <<>>
    /\ det_leaks = <<>>

InitAllCalls == AllCallsInit /\ WBIdle /\ ParIdle

NextAllCalls ==
    \/ Next
    \/ NextGates
    \/ NextPayroll
    \/ NextDetect

SpecAllCalls == InitAllCalls /\ [][NextAllCalls]_vars

(***************************************************************************)
(* The gate pipeline's contract, stated from the input claim list alone    *)
(***************************************************************************)
RawTotal(c) == QAdd(c.incurred_indemnity, c.incurred_medical)

\* the positions of the input claims that share c's accident date
SameDate(c) == {i \in 1..Len(claims) : claims[i].accident_date = c.accident_date}

RECURSIVE RawTotalOver(_)
RawTotalOver(positions) ==
    IF positions = {} THEN QOf(0)
    ELSE LET i == CHOOSE i \in positions : TRUE
         IN  QAdd(RawTotal(claims[i]), RawTotalOver(positions \ {i}))

GroupOverCap(c) ==
    /\ Cardinality(SameDate(c)) > 1
    /\ QLt(gate_config.sal_multiple_claim, RawTotalOver(SameDate(c)))

GroupRatioOf(c) ==
    IF GroupOverCap(c)
    THEN QDiv(gate_config.sal_multiple_claim, RawTotalOver(SameDate(c)))
    ELSE QOf(1)

EraEligible(c) ==
    gate_config.is_era_state /\ (c.injury_code = "6" \/ c.incurred_indemnity = QOf(0))

EraStageAmount(c) ==
    IF EraEligible(c) THEN QMul(RawTotal(c), gate_config.era_discount)
    ELSE RawTotal(c)

\* the leaks of one type emitted so far that name exactly this claim
LeaksOf(leak_type, c) ==
    {k \in 1..Len(leaks) : /\ leaks[k].leak_type = leak_type
                           /\ leaks[k].affected_items = <<c.claim_number>>}

\* C1: preprocess_claims returns exactly one ProcessedClaim per input claim, each
\* with frequency_adjusted_amount = min(A, sal_per_claim) x r, A the ERA-stage
\* amount and r the ratio of the claim's accident-date group; SAL acts on the ERA
\* gate's output and the ratio on the SAL gate's output, the claim being appended
\* only after all three.
C1_OnePerClaimGatedInOrder ==
    /\ gate_pc = "returned" =>
        /\ Len(processed) = Len(claims)
        /\ \A i \in 1..Len(claims) :
            Cardinality({j \in 1..Len(processed) :
                            processed[j].original_claim = claims[i]}) = 1
        /\ \A j \in 1..Len(processed) :
            LET c == processed[j].original_claim
            IN  /\ processed[j].era_ratable_amount = EraStageAmount(c)
                /\ processed[j].sal_capped_amount =
                        QMin(processed[j].era_ratable_amount, gate_config.sal_per_claim)
                /\ processed[j].frequency_adjusted_amount =
                        QMul(QMin(EraStageAmount(c), gate_config.sal_per_claim),
                             GroupRatioOf(c))
        /\ processed = preprocess_claims(claims, gate_config).processed
        /\ leaks = preprocess_claims(claims, gate_config).leaks
    /\ gate_pc \in {"sal", "frequency"} => era_ratable = EraStageAmount(claim)
    /\ gate_pc = "frequency" =>
            sal_capped = QMin(EraStageAmount(claim), gate_config.sal_per_claim)
    /\ gate_pc \in {"era", "sal", "frequency"} =>
            \A j \in 1..Len(processed) : processed[j].original_claim # claim

\* C1 witness: three claims returned under an ERA authority in an order other than
\* the input order, one of them discounted, capped and scaled
C1_Witness ==
    /\ gate_pc = "returned"
    /\ Len(claims) = 3
    /\ gate_config.is_era_state
    /\ processed[2].original_claim # claims[2]
    /\ \E j \in 1..Len(processed) :
        /\ processed[j].era_applied
        /\ processed[j].sal_applied
        /\ processed[j].frequency_cap_applied
        /\ QLt(processed[j].frequency_adjusted_amount, processed[j].sal_capped_amount)

\* C2: all input claims of one accident date get ratio = cap/sum and
\* frequency_cap_applied = true when they are more than one and the sum of their
\* raw incurred totals is strictly above sal_multiple_claim, and ratio = 1 and
\* false otherwise (a sum equal to the cap included); while any claim of a group
\* is at a gate the ratio is already the whole group's.
C2_FrequencyGate ==
    /\ \A j \in 1..Len(processed) :
        LET c == processed[j].original_claim
        IN  /\ processed[j].frequency_cap_applied = GroupOverCap(c)
            /\ processed[j].frequency_adjusted_amount =
                    QMul(processed[j].sal_capped_amount, GroupRatioOf(c))
    /\ gate_pc \in {"era", "sal", "frequency"} =>
        /\ ratio = GroupRatioOf(claim)
        /\ frequency_cap_applied = GroupOverCap(claim)

\* C2 witness: the first and third input claims share a date the second does not,
\* their sum is over the cap, and the third is about to be scaled
C2_Witness ==
    /\ gate_pc = "frequency"
    /\ Len(claims) = 3
    /\ claims[1].accident_date = claims[3].accident_date
    /\ claims[2].accident_date # claims[1].accident_date
    /\ claim = claims[3]
    /\ frequency_cap_applied
    /\ QLt(ratio, QOf(1))

\* C3: every ProcessedClaim has primary_loss = min(final, split_point) and
\* excess_loss = max(0, final - split_point), so primary + excess = final,
\* primary <= split_point and excess >= 0.
C3_PrimaryExcessSplit ==
    \A j \in 1..Len(processed) :
        LET final == processed[j].frequency_adjusted_amount
            split == gate_config.split_point
        IN  /\ processed[j].primary_loss = (IF QLe(final, split) THEN final ELSE split)
            /\ processed[j].excess_loss =
                    (IF QLt(split, final) THEN QSub(final, split) ELSE QOf(0))
            /\ QAdd(processed[j].primary_loss, processed[j].excess_loss) = final
            /\ QLe(processed[j].primary_loss, split)
            /\ QLe(QOf(0), processed[j].excess_loss)

\* C3 witness: one claim below the split point and one above it
C3_Witness ==
    /\ gate_pc = "returned"
    /\ \E j, k \in 1..Len(processed) :
        /\ QLt(QOf(0), processed[j].frequency_adjusted_amount)
        /\ QLt(processed[j].frequency_adjusted_amount, gate_config.split_point)
        /\ processed[j].excess_loss = QOf(0)
        /\ QLt(QOf(0), processed[k].excess_loss)
        /\ processed[k].primary_loss = gate_config.split_point

\* C4: a run emits one ERA_MEDICAL_ONLY leak for a claim exactly when the authority
\* is ERA-eligible, the claim is medical-only and incurred_total exceeds
\* incurred_total x era_discount, with dollar_impact = incurred_total - ratable
\* amount and recovery probability 0.95; every other claim passes with
\* era_ratable_amount = incurred_total, era_applied = false and no ERA leak.
C4_EraGate ==
    gate_pc = "returned" =>
        \A j \in 1..Len(processed) :
            LET c == processed[j].original_claim
                ratable == QMul(RawTotal(c), gate_config.era_discount)
                era_leaks == LeaksOf("ERA_MEDICAL_ONLY", c)
            IN  /\ processed[j].era_applied = EraEligible(c)
                /\ processed[j].era_ratable_amount =
                        (IF EraEligible(c) THEN ratable ELSE RawTotal(c))
                /\ IF EraEligible(c) /\ QLt(ratable, RawTotal(c))
                   THEN /\ Cardinality(era_leaks) = 1
                        /\ \A k \in era_leaks :
                            /\ leaks[k].dollar_impact = QSub(RawTotal(c), ratable)
                            /\ leaks[k].recovery_probability = QMk(95, 100)
                   ELSE era_leaks = {}

\* C4 witness: the medical-only claim of 1,000 at discount 0.30: ratable 300, one
\* leak of 700
C4_Witness ==
    /\ gate_pc = "returned"
    /\ gate_config.era_discount = QMk(30, 100)
    /\ \E j \in 1..Len(processed) :
        /\ RawTotal(processed[j].original_claim) = QOf(1000)
        /\ processed[j].era_applied
        /\ processed[j].era_ratable_amount = QOf(300)
        /\ \E k \in LeaksOf("ERA_MEDICAL_ONLY", processed[j].original_claim) :
            leaks[k].dollar_impact = QOf(700)

\* C5: sal_capped_amount = min(ERA-stage amount, sal_per_claim); a run emits one
\* SPLIT_POINT_CAP leak for a claim exactly when the cap is strictly below the
\* ERA-stage amount, with dollar_impact = ERA-stage amount - sal_per_claim and
\* recovery probability 0.99; the raw incurred total plays no part.
C5_SalGate ==
    gate_pc = "returned" =>
        \A j \in 1..Len(processed) :
            LET c == processed[j].original_claim
                cap == gate_config.sal_per_claim
                sal_leaks == LeaksOf("SPLIT_POINT_CAP", c)
            IN  /\ processed[j].sal_capped_amount =
                        (IF QLt(cap, EraStageAmount(c)) THEN cap ELSE EraStageAmount(c))
                /\ processed[j].sal_applied = QLt(cap, EraStageAmount(c))
                /\ IF QLt(cap, EraStageAmount(c))
                   THEN /\ Cardinality(sal_leaks) = 1
                        /\ \A k \in sal_leaks :
                            /\ leaks[k].dollar_impact = QSub(EraStageAmount(c), cap)
                            /\ leaks[k].recovery_probability = QMk(99, 100)
                   ELSE sal_leaks = {}

\* C5 witness: 200,000 against a cap of 176,000 gives 176,000 and a leak of 24,000,
\* beside a medical-only claim of 500,000 discounted to 150,000 with no SAL leak
C5_Witness ==
    /\ gate_pc = "returned"
    /\ gate_config.sal_per_claim = QOf(176000)
    /\ \E j, m \in 1..Len(processed) :
        /\ processed[j].era_ratable_amount = QOf(200000)
        /\ processed[j].sal_capped_amount = QOf(176000)
        /\ \E k \in LeaksOf("SPLIT_POINT_CAP", processed[j].original_claim) :
            leaks[k].dollar_impact = QOf(24000)
        /\ RawTotal(processed[m].original_claim) = QOf(500000)
        /\ processed[m].era_ratable_amount = QOf(150000)
        /\ ~processed[m].sal_applied
        /\ LeaksOf("SPLIT_POINT_CAP", processed[m].original_claim) = {}

(***************************************************************************)
(* The mod calculation and the credibility clamp                           *)
(***************************************************************************)
\* the steps of run_full_audit at which current_mod has been returned
AfterCurrentMod ==
    pc \in {"adjust_payroll", "corrected_claims", "claim_leaks", "final_claims",
            "corrected_mod", "compile", "returned"}

\* the steps at which corrected_mod has been returned
AfterCorrectedMod == pc \in {"compile", "returned"}

\* sum(...) over a sequence of amounts, left to right
RECURSIVE SumLeftToRight(_)
SumLeftToRight(amounts) ==
    IF amounts = <<>> THEN QOf(0)
    ELSE QAdd(SumLeftToRight(SubSeq(amounts, 1, Len(amounts) - 1)),
              amounts[Len(amounts)])

ExposureExpected(e) == QMul(QDiv(e.payroll, QOf(100)), e.elr)

\* x is num/den rounded to the nearest thousandth, a tie going to the even one
IsRoundedTo3(x, num, den) ==
    LET diff == RSub(QToR(x), RDiv(num, den))
        half == RDec(1, 2000)
    IN  /\ QMul(x, QOf(1000)).d = 1
        /\ RCmp(diff, half) <= 0
        /\ RCmp(diff, RNeg(half)) >= 0
        /\ (REq(diff, half) \/ REq(diff, RNeg(half))) => QMul(x, QOf(1000)).n % 2 = 0

\* m is what the mod formula gives for these exposures and processed claims
IsModOf(m, exposures, processed_claims) ==
    LET EL == [i \in 1..Len(exposures) |-> ExposureExpected(exposures[i])]
        Ep == [i \in 1..Len(exposures) |-> QMul(EL[i], exposures[i].d_ratio)]
        Ee == [i \in 1..Len(exposures) |-> QSub(EL[i], Ep[i])]
        Ap == [i \in 1..Len(processed_claims) |-> processed_claims[i].primary_loss]
        Ae == [i \in 1..Len(processed_claims) |-> processed_claims[i].excess_loss]
        wb == calculate_w_and_b(config, QToR(m.total_expected_losses))
        one_minus_W == RSub(ROfInt(1), m.W)
    IN  /\ m.total_expected_losses = SumLeftToRight(EL)
        /\ m.expected_primary = SumLeftToRight(Ep)
        /\ m.expected_excess = SumLeftToRight(Ee)
        /\ m.actual_primary = SumLeftToRight(Ap)
        /\ m.actual_excess = SumLeftToRight(Ae)
        /\ wb.ok /\ REq(m.W, wb.W) /\ REq(m.B, wb.B)
        /\ REq(m.numerator,
               RAdd(RAdd(RAdd(QToR(m.actual_primary),
                              RMul(m.W, QToR(m.actual_excess))),
                         RMul(one_minus_W, QToR(m.expected_excess))),
                    m.B))
        /\ REq(m.denominator,
               RAdd(RAdd(QToR(m.expected_primary), QToR(m.expected_excess)), m.B))
        /\ IF RIsZero(m.denominator) THEN m.experience_mod = QOf(1)
           ELSE IsRoundedTo3(m.experience_mod, m.numerator, m.denominator)

\* C6: when calculate_experience_mod has returned (the current mod at the payroll
\* step, the corrected mod at the compile step), its result holds the sums of
\* expected losses/primary/excess over the exposures and of actual primary/excess
\* over the processed claims, (W, B) of the rating authority at the summed expected
\* losses, numerator = Ap + W x Ae + (1 - W) x Ee + B, denominator = Ep + Ee + B,
\* and experience_mod = numerator/denominator rounded to 3 decimals; the step that
\* forms the quotient gives exactly 1.000 for a zero denominator (applied there to
\* the numerator just computed, to zero and to a negative numerator).
C6_ModFormula ==
    /\ pc = "adjust_payroll" =>
            IsModOf(current_mod, raw_exposures, current_processed_claims)
    /\ pc = "compile" => IsModOf(corrected_mod, adjusted_exposures, final_claims)
    /\ pc = "compile" =>
            \A numerator \in {ROfInt(0), corrected_mod.numerator, RNeg(RDec(1, 3))} :
                \A denominator \in {ROfInt(0), RDec(0, 1000)} :
                    ModValue(numerator, denominator) = QOf(1)

\* C6 witness: the corrected mod has been returned for two exposures and a claim
\* above the split point, and differs from the current mod
C6_Witness ==
    /\ pc = "compile"
    /\ Len(raw_exposures) = 2
    /\ Len(final_claims) >= 1
    /\ QLt(QOf(0), corrected_mod.actual_excess)
    /\ QLt(QOf(0), corrected_mod.expected_excess)
    /\ current_mod.experience_mod # corrected_mod.experience_mod

\* the mod calculation has been attempted on no exposures and no claims
DegenerateAttempted ==
    /\ raw_exposures = <<>>
    /\ raw_claims = <<>>
    /\ AfterCurrentMod \/ (pc = "raised" /\ error # "ValueError")

\* C7, as stated: with zero exposures and zero claims the mod calculation has
\* denominator = 0 and returns 1.000, raising no error.
C7_ZeroDenominator ==
    DegenerateAttempted =>
        /\ error = "None"
        /\ RIsZero(current_mod.denominator)
        /\ current_mod.experience_mod = QOf(1)

\* C7, amended: with zero exposures and zero claims under the NCCI authority the
\* calculation raises no error, W = 0, B = 7,500, numerator = denominator = 7,500
\* (not 0) and experience_mod = 1.000 exactly, in the current and in the corrected
\* pass; under an authority that is not NCCI it raises NotImplementedError.
C7_DegenerateMod ==
    DegenerateAttempted =>
        IF config.is_ncci_state
        THEN /\ error = "None"
             /\ RIsZero(current_mod.W)
             /\ REq(current_mod.B, ROfInt(7500))
             /\ REq(current_mod.numerator, ROfInt(7500))
             /\ REq(current_mod.denominator, ROfInt(7500))
             /\ current_mod.experience_mod = QOf(1)
             /\ AfterCorrectedMod =>
                    /\ REq(corrected_mod.denominator, ROfInt(7500))
                    /\ corrected_mod.experience_mod = QOf(1)
        ELSE pc = "raised" /\ error = "NotImplementedError"

\* C7 witness: the audit of no exposures and no claims has returned in Georgia
C7_Witness ==
    /\ pc = "returned"
    /\ raw_exposures = <<>>
    /\ raw_claims = <<>>
    /\ config.state_code = "GA"
    /\ corrected_mod.experience_mod = QOf(1)

\* C8: for every E >= 0 under the NCCI authority, the ballast returned is
\* max(7500, E(E + 0.01028 S)/(0.75 E + 0.8153 S)): never below 7,500, exactly
\* 7,500 when the quotient is below 7,500, the quotient otherwise.
C8_BallastClamp ==
    wb_pc = "returned" =>
        LET E == QToR(wb_expected_losses)
            S == QToR(wb_config.s_value)
            quotient_num == RMul(E, RAdd(E, RMul(RDec(1028, 100000), S)))
            quotient_den == RAdd(RMul(RDec(75, 100), E), RMul(RDec(8153, 10000), S))
            floor == ROfInt(7500)
        IN  /\ RCmp(wb_result.B, floor) >= 0
            /\ IF RCmp(quotient_num, RMul(floor, quotient_den)) < 0
               THEN REq(wb_result.B, floor)
               ELSE REq(RMul(wb_result.B, quotient_den), quotient_num)

\* C8 witness: just below the crossing point the quotient is under 7,500 and the
\* ballast is 7,500
C8_Witness ==
    /\ wb_pc = "returned"
    /\ wb_expected_losses = QOf(126266)
    /\ REq(wb_result.B, ROfInt(7500))

(***************************************************************************)
(* The two passes of run_full_audit                                        *)
(***************************************************************************)
NotDenied(c) == ~is_denied(c)
OriginalNotDenied(p) == ~is_denied(p.original_claim)

C10_DeniedExcludedEntirely ==
    pc = "returned" =>
        corrected_mod =
            calculate_experience_mod(
                adjusted_exposures,
                preprocess_claims(SelectSeq(raw_claims, NotDenied), config).processed,
                config)

(***************************************************************************)
(* The report's leak list                                                  *)
(***************************************************************************)
\* the status or the notes indicate a denial, in any letter case
IndicatesDenial(c) ==
    \/ \E i \in 1..(Len(c.status) - 5) : lower(SubSeq(c.status, i, i + 5)) = "denied"
    \/ \E i \in 1..(Len(c.claim_notes) - 7) :
            lower(SubSeq(c.claim_notes, i, i + 7)) = "non-comp"

\* the positions of the report's leak list that hold a leak of this type naming
\* exactly these items
ReportLeaksOf(leak_type, items) ==
    {k \in 1..Len(report.detected_leaks) :
        /\ report.detected_leaks[k].leak_type = leak_type
        /\ report.detected_leaks[k].affected_items = items}

\* C11: when the audit has returned, no claim whose status or notes indicate a
\* denial has a ProcessedClaim in the corrected-pass set (final_claims); the
\* report's leak list holds exactly one RULE_4C_DENIAL leak naming each denied
\* claim with incurred_total > 0, with dollar_impact = its whole incurred_total
\* and recovery_probability 0.95, and none naming a denied claim with
\* incurred_total = 0.
C11_DeniedRemovedListedOnce ==
    pc = "returned" =>
        \A i \in 1..Len(raw_claims) :
            IndicatesDenial(raw_claims[i]) =>
                /\ \A k \in 1..Len(final_claims) :
                        final_claims[k].original_claim.claim_number
                            # raw_claims[i].claim_number
                /\ IF QLt(QOf(0), RawTotal(raw_claims[i]))
                   THEN /\ Cardinality(ReportLeaksOf("RULE_4C_DENIAL",
                                           <<raw_claims[i].claim_number>>)) = 1
                        /\ \A k \in ReportLeaksOf("RULE_4C_DENIAL",
                                                  <<raw_claims[i].claim_number>>) :
                            /\ report.detected_leaks[k].dollar_impact
                                    = RawTotal(raw_claims[i])
                            /\ report.detected_leaks[k].recovery_probability
                                    = QMk(95, 100)
                   ELSE ReportLeaksOf("RULE_4C_DENIAL",
                                      <<raw_claims[i].claim_number>>) = {}

\* C11 witness: an audit has returned for a claim denied in its notes only, with
\* amounts, and a claim denied in its status with no amount; a denial leak is listed
C11_Witness ==
    /\ pc = "returned"
    /\ \E i \in 1..Len(raw_claims) :
        /\ IndicatesDenial(raw_claims[i])
        /\ lower(raw_claims[i].status) = "open"
        /\ QLt(QOf(0), RawTotal(raw_claims[i]))
    /\ \E i \in 1..Len(raw_claims) :
        /\ IndicatesDenial(raw_claims[i])
        /\ RawTotal(raw_claims[i]) = QOf(0)
    /\ \E k \in 1..Len(report.detected_leaks) :
        report.detected_leaks[k].leak_type = "RULE_4C_DENIAL"

\* the number of entries of a list equal to x
Count(list, x) == Cardinality({k \in 1..Len(list) : list[k] = x})

\* the entries of a list that are gate leaks (ERA or SAL)
GateLeakTypes == {"ERA_MEDICAL_ONLY", "SPLIT_POINT_CAP"}
IsGateLeak(leak) == leak.leak_type \in GateLeakTypes
GateLeaksIn(list) == SelectSeq(list, IsGateLeak)

\* the gate leaks the current pass emits: the second result of the call of
\* line 697, which the assignment drops
CurrentPassGateLeaks == preprocess_claims(raw_claims, config).leaks

\* the gate's amount going into the SAL gate, for the audit's rating authority
AuditEraStageAmount(c) ==
    IF config.is_era_state /\ (c.injury_code = "6" \/ c.incurred_indemnity = QOf(0))
    THEN QMul(RawTotal(c), config.era_discount)
    ELSE RawTotal(c)

\* C12, as stated: when the audit has returned, every gate leak emitted during the
\* current pass and every gate leak emitted during the corrected pass is an entry
\* of the report's leak list (entries are never merged: a leak emitted by both
\* passes is listed once for each).
C12_BothPassesListed ==
    pc = "returned" =>
        \A k \in 1..Len(claim_processing_leaks) :
            Count(report.detected_leaks, claim_processing_leaks[k])
                >= Count(CurrentPassGateLeaks, claim_processing_leaks[k])
                    + Count(claim_processing_leaks, claim_processing_leaks[k])

\* C12, amended: the report's leak list holds the gate leaks of the corrected pass
\* only, one entry per leak emitted in that pass: one ERA leak per medical-only
\* claim with incurred_total > 0 and one SAL leak per claim whose ERA-stage amount
\* is above the accident limitation.  The current pass emits the same leaks, which
\* are dropped and add no entry.
C12_CorrectedPassListed ==
    pc = "returned" =>
        /\ GateLeaksIn(report.detected_leaks) = claim_processing_leaks
        /\ CurrentPassGateLeaks = claim_processing_leaks
        /\ \A k \in 1..Len(claim_processing_leaks) :
            Count(report.detected_leaks, claim_processing_leaks[k])
                = Count(claim_processing_leaks, claim_processing_leaks[k])
        /\ \A i \in 1..Len(raw_claims) :
            /\ Cardinality(ReportLeaksOf("ERA_MEDICAL_ONLY",
                                         <<raw_claims[i].claim_number>>))
                 = IF QLt(AuditEraStageAmount(raw_claims[i]), RawTotal(raw_claims[i]))
                   THEN 1 ELSE 0
            /\ Cardinality(ReportLeaksOf("SPLIT_POINT_CAP",
                                         <<raw_claims[i].claim_number>>))
                 = IF QLt(config.sal_per_claim, AuditEraStageAmount(raw_claims[i]))
                   THEN 1 ELSE 0

\* C12 witness: an audit has returned whose report lists an ERA leak and a SAL leak
C12_Witness ==
    /\ pc = "returned"
    /\ \E k \in 1..Len(report.detected_leaks) :
        report.detected_leaks[k].leak_type = "ERA_MEDICAL_ONLY"
    /\ \E k \in 1..Len(report.detected_leaks) :
        report.detected_leaks[k].leak_type = "SPLIT_POINT_CAP"
    /\ Len(CurrentPassGateLeaks) = 2

\* the payroll rules in their order, and when each triggers for an exposure
PayrollRules ==
    <<"OVERTIME_PREMIUM", "EXEC_OFFICER_CAP", "SEVERANCE_PAY", "TRAVEL_EXPENSE",
      "SUBCONTRACTOR_DUPES">>

PayrollRuleTriggered(e, cap, r) ==
    CASE r = 1 -> QLt(QOf(0), e.overtime_earnings)
      [] r = 2 -> QLt(cap, e.executive_officer_payroll)
      [] r = 3 -> QLt(QOf(0), e.severance_pay)
      [] r = 4 -> QLt(QOf(0), e.travel_reimbursements)
      [] r = 5 -> QLt(QOf(0), e.subcontractor_payroll)

\* the (position, rule) pairs over n items and 5 rules, item by item and rule by
\* rule
RulePairs(n) == [k \in 1..(5 * n) |-> <<((k - 1) \div 5) + 1, ((k - 1) % 5) + 1>>]

\* (leak type, affected items) of the leaks expected of the PayrollAdjuster
ExpectedPayrollKeys(exposure_list, cap) ==
    LET Triggered(p) == PayrollRuleTriggered(exposure_list[p[1]], cap, p[2])
        hits == SelectSeq(RulePairs(Len(exposure_list)) \o <<>>, Triggered)
    IN  [k \in 1..Len(hits) |->
            <<PayrollRules[hits[k][2]], <<exposure_list[hits[k][1]].class_code>>>>]

\* the claim rules in their order, and when each triggers for the i-th claim
ClaimRules ==
    <<"SUBROGATION", "ZOMBIE_RESERVES", "RULE_4C_DENIAL", "SIF_CREDIT",
      "DUPLICATE_CLAIMS">>

SameSignature(a, b) ==
    /\ a.accident_date = b.accident_date
    /\ a.claimant_name = b.claimant_name
    /\ RawTotal(a) = RawTotal(b)

ClaimRuleTriggered(claim_list, i, as_of, r) ==
    CASE r = 1 -> has_subrogation(claim_list[i]) /\ QLt(QOf(0), RawTotal(claim_list[i]))
      [] r = 2 -> /\ claim_list[i].status = "Open"
                  /\ claim_list[i].last_payment_date # <<>>
                  /\ as_of - claim_list[i].last_payment_date[1] > 180
      [] r = 3 -> IndicatesDenial(claim_list[i]) /\ QLt(QOf(0), RawTotal(claim_list[i]))
      [] r = 4 -> has_sif_credit(claim_list[i])
      [] r = 5 -> \E j \in 1..(i - 1) : SameSignature(claim_list[j], claim_list[i])

\* the claim numbers a leak of rule r names for the i-th claim: the claim, after
\* the first claim with its signature for a duplicate
ClaimRuleItems(claim_list, i, r) ==
    IF r = 5
    THEN <<claim_list[CHOOSE j \in 1..(i - 1) :
                /\ SameSignature(claim_list[j], claim_list[i])
                /\ \A h \in 1..(j - 1) : ~SameSignature(claim_list[h], claim_list[i])
             ].claim_number,
           claim_list[i].claim_number>>
    ELSE <<claim_list[i].claim_number>>

\* (leak type, affected items) of the leaks expected of the ClaimLeakDetector
ExpectedClaimKeys(claim_list, as_of) ==
    LET Triggered(p) == ClaimRuleTriggered(claim_list, p[1], as_of, p[2])
        hits == SelectSeq(RulePairs(Len(claim_list)) \o <<>>, Triggered)
    IN  [k \in 1..Len(hits) |->
            <<ClaimRules[hits[k][2]], ClaimRuleItems(claim_list, hits[k][1], hits[k][2])>>]

\* the list holds, position by position, leaks of these types naming these items
HasKeys(list, keys) ==
    /\ Len(list) = Len(keys)
    /\ \A k \in 1..Len(list) :
        <<list[k].leak_type, list[k].affected_items>> = keys[k]

\* the part of the report's leak list from position a + 1 to position a + n
ReportPart(a, n) == SubSeq(report.detected_leaks, a + 1, a + n)

\* C13: when the audit has returned, the report's leak list is the
\* PayrollAdjuster's leaks (exposure by exposure, and for each exposure in the
\* rule order overtime, executive cap, severance, travel, subcontractor), then the
\* gate pipeline's leaks, then the ClaimLeakDetector's leaks (claim by claim, and
\* for each claim in the rule order subrogation, zombie, denial, SIF, duplicate);
\* its length is the number of leaks the three emitted, so leaks naming the same
\* claim or class code stay separate entries.
C13_MergedInOrder ==
    pc = "returned" =>
        /\ Len(report.detected_leaks)
             = Len(payroll_leaks) + Len(claim_processing_leaks) + Len(claim_leaks)
        /\ HasKeys(ReportPart(0, Len(payroll_leaks)),
                   ExpectedPayrollKeys(raw_exposures, exec_officer_cap))
        /\ ReportPart(Len(payroll_leaks), Len(claim_processing_leaks))
             = claim_processing_leaks
        /\ \A k \in 1..Len(claim_processing_leaks) :
             IsGateLeak(claim_processing_leaks[k])
        /\ HasKeys(ReportPart(Len(payroll_leaks) + Len(claim_processing_leaks),
                              Len(claim_leaks)),
                   ExpectedClaimKeys(raw_claims, valuation_date))

\* C13 witness: the returned report lists payroll leaks of two class codes, three
\* of them naming one class code, a gate leak, and four leaks naming one claim
\* (subrogation, zombie, denial, SIF)
C13_Witness ==
    /\ pc = "returned"
    /\ Cardinality(ReportLeaksOf("OVERTIME_PREMIUM", <<"5403">>)
                    \cup ReportLeaksOf("EXEC_OFFICER_CAP", <<"5403">>)
                    \cup ReportLeaksOf("SEVERANCE_PAY", <<"5403">>)) = 3
    /\ ReportLeaksOf("OVERTIME_PREMIUM", <<"7219">>) # {}
    /\ Len(claim_processing_leaks) > 0
    /\ \E i \in 1..Len(raw_claims) :
        \A r \in 1..4 : ClaimRuleTriggered(raw_claims, i, valuation_date, r)

\* the unrounded mod numerator / denominator of a mod calculation result
UnroundedMod(m) == RDiv(m.numerator, m.denominator)

\* C14: when the audit has returned, the report's total_leak_impact is the sum of
\* dollar_impact over the merged leak list, its expected_recovery the sum of
\* dollar_impact x recovery_probability over that list, its mod_reduction the
\* current experience mod minus the corrected one (both already rounded to three
\* decimals), and its premium_savings that mod_reduction times the policy's
\* total_manual_premium.
C14_ReportAggregates ==
    pc = "returned" =>
        LET listed == report.detected_leaks
        IN  /\ report.total_leak_impact
                 = SumLeftToRight([i \in 1..Len(listed) |-> listed[i].dollar_impact])
            /\ report.expected_recovery
                 = SumLeftToRight([i \in 1..Len(listed) |->
                        QMul(listed[i].dollar_impact, listed[i].recovery_probability)])
            /\ QMul(current_mod.experience_mod, QOf(1000)).d = 1
            /\ QMul(corrected_mod.experience_mod, QOf(1000)).d = 1
            /\ report.mod_reduction
                 = QSub(current_mod.experience_mod, corrected_mod.experience_mod)
            /\ report.premium_savings
                 = QMul(report.mod_reduction, policy_info.total_manual_premium)

\* C14 witness: a returned report with several leaks, an expected recovery below
\* the total impact, and a nonzero mod reduction that differs from the difference
\* of the unrounded mods
C14_Witness ==
    /\ pc = "returned"
    /\ Len(report.detected_leaks) > 3
    /\ QLt(report.expected_recovery, report.total_leak_impact)
    /\ report.mod_reduction # QOf(0)
    /\ report.premium_savings # QOf(0)
    /\ ~RIsZero(current_mod.denominator)
    /\ ~RIsZero(corrected_mod.denominator)
    /\ ~REq(QToR(report.mod_reduction),
            RSub(UnroundedMod(current_mod), UnroundedMod(corrected_mod)))

\* the exposures the PayrollAdjuster's loop has processed
ProcessedExposures == SubSeq(pay_exposures, 1, exp_index - 1)

\* the exclusion of rule r for an exposure (overtime rate nonzero)
RuleExclusion(e, cap, r) ==
    CASE r = 1 -> QMul(e.overtime_earnings,
                       QDiv(QSub(e.overtime_rate, QOf(1)), e.overtime_rate))
      [] r = 2 -> QSub(e.executive_officer_payroll, cap)
      [] r = 3 -> e.severance_pay
      [] r = 4 -> e.travel_reimbursements
      [] r = 5 -> e.subcontractor_payroll

\* the (exposure position, rule) pairs that trigger, in order
PayrollHits(exposure_list, cap) ==
    LET Triggered(p) == PayrollRuleTriggered(exposure_list[p[1]], cap, p[2])
    IN  SelectSeq(RulePairs(Len(exposure_list)) \o <<>>, Triggered)

\* the dollar_impacts of the leaks emitted for the i-th processed exposure, by
\* rule (0 for a rule with no leak)
ImpactsOfExposure(i) ==
    LET hits == PayrollHits(ProcessedExposures, pay_cap)
    IN  [r \in 1..5 |->
            IF \E k \in 1..Len(hits) : hits[k] = <<i, r>>
            THEN pay_leaks[CHOOSE k \in 1..Len(hits) : hits[k] = <<i, r>>].dollar_impact
            ELSE QOf(0)]

\* C15: for the exposures the PayrollAdjuster has processed, the leaks are one per
\* triggered rule (executive payroll strictly above the cap; severance, travel,
\* subcontractor above 0), each with the rule's exclusion as dollar_impact
\* (executive payroll - cap; the whole severance, travel or subcontractor
\* amount); each adjusted exposure has the input's payroll minus the sum of the
\* dollar_impacts of that exposure's leaks and the input's class code,
\* description, ELR and D-Ratio; there is one adjusted exposure per processed
\* exposure, in the same order, so one per input exposure on return.
C15_PerExposureAdjustment ==
    LET hits == PayrollHits(ProcessedExposures, pay_cap)
    IN  /\ HasKeys(pay_leaks, ExpectedPayrollKeys(ProcessedExposures, pay_cap))
        /\ \A k \in 1..Len(hits) :
             pay_leaks[k].dollar_impact
               = RuleExclusion(ProcessedExposures[hits[k][1]], pay_cap, hits[k][2])
        /\ Len(pay_adjusted) = Len(ProcessedExposures)
        /\ pay_pc = "returned" => Len(pay_adjusted) = Len(pay_exposures)
        /\ \A i \in 1..Len(pay_adjusted) :
             /\ pay_adjusted[i].payroll
                  = QSub(pay_exposures[i].payroll,
                         SumLeftToRight(ImpactsOfExposure(i) \o <<>>))
             /\ pay_adjusted[i].class_code = pay_exposures[i].class_code
             /\ pay_adjusted[i].description = pay_exposures[i].description
             /\ pay_adjusted[i].elr = pay_exposures[i].elr
             /\ pay_adjusted[i].d_ratio = pay_exposures[i].d_ratio

\* C15 witness: the adjuster has returned for two exposures, the first triggering
\* all five rules, the second with executive payroll exactly at the cap and only
\* the overtime rule triggered
C15_Witness ==
    /\ pay_pc = "returned"
    /\ Len(pay_exposures) = 2
    /\ \A r \in 1..5 : PayrollRuleTriggered(pay_exposures[1], pay_cap, r)
    /\ pay_exposures[2].executive_officer_payroll = pay_cap
    /\ \A r \in 1..5 : PayrollRuleTriggered(pay_exposures[2], pay_cap, r) <=> r = 1
    /\ Len(pay_leaks) = 6

\* the exposures the loop has visited: the processed ones, and the one it raised at
VisitedExposures ==
    SubSeq(pay_exposures, 1, IF pay_pc = "raised" THEN exp_index ELSE exp_index - 1)

\* an OVERTIME_PREMIUM leak was emitted for the exposure
OvertimeLeakEmittedFor(e) ==
    \E k \in 1..Len(pay_leaks) :
        /\ pay_leaks[k].leak_type = "OVERTIME_PREMIUM"
        /\ pay_leaks[k].affected_items = <<e.class_code>>
        /\ pay_leaks[k].recovery_probability = QMk(90, 100)

\* C16 as stated: for every exposure the PayrollAdjuster has visited with
\* overtime_earnings > 0, whatever its overtime rate, an OVERTIME_PREMIUM leak
\* with recovery probability 0.90 was emitted.
C16_LeakForEveryRate ==
    \A i \in 1..Len(VisitedExposures) :
        QLt(QOf(0), VisitedExposures[i].overtime_earnings)
            => OvertimeLeakEmittedFor(VisitedExposures[i])

\* C16: for every exposure the PayrollAdjuster has processed with
\* overtime_earnings > 0, the overtime rate is nonzero and the OVERTIME_PREMIUM
\* leak emitted for it has dollar_impact = overtime_earnings x (rate - 1)/rate
\* (one third of the earnings at 1.5, half at 2.0, six tenths at 2.5; 3,000 for
\* 9,000 at 1.5) and recovery probability 0.90; the adjuster raises
\* ZeroDivisionError exactly at an exposure with overtime_earnings > 0 and
\* overtime rate 0, for which it emits nothing.
C16_OvertimeExclusion ==
    LET hits == PayrollHits(ProcessedExposures, pay_cap)
    IN  /\ \A i \in 1..Len(ProcessedExposures) :
             QLt(QOf(0), ProcessedExposures[i].overtime_earnings) =>
                /\ ProcessedExposures[i].overtime_rate # QOf(0)
                /\ \E k \in 1..Len(hits) : hits[k] = <<i, 1>>
        /\ \A k \in 1..Len(hits) :
             hits[k][2] = 1 =>
                LET e == ProcessedExposures[hits[k][1]]
                    leak == pay_leaks[k]
                IN  /\ leak.leak_type = "OVERTIME_PREMIUM"
                    /\ leak.recovery_probability = QMk(90, 100)
                    /\ leak.dollar_impact
                         = QMul(e.overtime_earnings,
                                QDiv(QSub(e.overtime_rate, QOf(1)), e.overtime_rate))
                    /\ e.overtime_rate = QMk(3, 2)
                         => QMul(leak.dollar_impact, QOf(3)) = e.overtime_earnings
                    /\ e.overtime_rate = QOf(2)
                         => QMul(leak.dollar_impact, QOf(2)) = e.overtime_earnings
                    /\ e.overtime_rate = QMk(5, 2)
                         => leak.dollar_impact = QMul(e.overtime_earnings, QMk(6, 10))
                    /\ (e.overtime_rate = QMk(3, 2) /\ e.overtime_earnings = QOf(9000))
                         => leak.dollar_impact = QOf(3000)
        /\ pay_pc = "raised" <=>
             /\ exp_index <= Len(pay_exposures)
             /\ pay_error = "ZeroDivisionError"
             /\ QLt(QOf(0), pay_exposures[exp_index].overtime_earnings)
             /\ pay_exposures[exp_index].overtime_rate = QOf(0)
             /\ Len(pay_adjusted) = exp_index - 1
             /\ Len(pay_leaks) = Len(hits)

\* C16 witness: the adjuster has returned after 9,000 of overtime at 1.5x
\* (exclusion 3,000) and overtime at a rate outside 1.5, 2.0 and 2.5
C16_Witness ==
    /\ pay_pc = "returned"
    /\ Len(pay_exposures) = 2
    /\ pay_exposures[1].overtime_earnings = QOf(9000)
    /\ pay_exposures[1].overtime_rate = QMk(3, 2)
    /\ pay_leaks[1].dollar_impact = QOf(3000)
    /\ QLt(QOf(0), pay_exposures[2].overtime_earnings)
    /\ pay_exposures[2].overtime_rate \notin {QMk(3, 2), QOf(2), QMk(5, 2)}
    /\ OvertimeLeakEmittedFor(pay_exposures[2])

\* no payroll rule triggers for the exposure
NoRuleTriggered(e, cap) == \A r \in 1..5 : ~PayrollRuleTriggered(e, cap, r)

\* the component fields hold the defaults of the ClassCodeExposure dataclass
\* (lines 78-84)
ComponentsAtDefaults(e) ==
    /\ e.overtime_earnings = QOf(0)
    /\ e.overtime_rate = QMk(3, 2)
    /\ e.executive_officer_payroll = QOf(0)
    /\ e.severance_pay = QOf(0)
    /\ e.travel_reimbursements = QOf(0)
    /\ e.subcontractor_payroll = QOf(0)

\* C17 as stated: the adjusted exposure of a processed exposure for which no
\* payroll rule triggers equals the input exposure in every field.
C17_CopiedInEveryField ==
    \A i \in 1..Len(pay_adjusted) :
        NoRuleTriggered(pay_exposures[i], pay_cap)
            => pay_adjusted[i] = pay_exposures[i]

\* C17: the adjusted exposure of a processed exposure for which no payroll rule
\* triggers equals the input exposure in class code, description, payroll, ELR
\* and D-Ratio, and its component fields hold the dataclass defaults (overtime
\* rate 1.5, the amounts 0), so it equals the input in every field exactly when
\* the input's component fields hold those defaults.
C17_CopiedInRatingFields ==
    \A i \in 1..Len(pay_adjusted) :
        NoRuleTriggered(pay_exposures[i], pay_cap) =>
            /\ pay_adjusted[i].class_code = pay_exposures[i].class_code
            /\ pay_adjusted[i].description = pay_exposures[i].description
            /\ pay_adjusted[i].payroll = pay_exposures[i].payroll
            /\ pay_adjusted[i].elr = pay_exposures[i].elr
            /\ pay_adjusted[i].d_ratio = pay_exposures[i].d_ratio
            /\ ComponentsAtDefaults(pay_adjusted[i])
            /\ pay_adjusted[i] = pay_exposures[i]
                 <=> ComponentsAtDefaults(pay_exposures[i])

\* C17 witness: the adjuster has returned for two exposures with no rule
\* triggered, the first with default components (copied whole), the second with
\* executive payroll below the cap and overtime rate 2.0 (both reset)
C17_Witness ==
    /\ pay_pc = "returned"
    /\ Len(pay_adjusted) = 2
    /\ pay_leaks = <<>>
    /\ pay_adjusted[1] = pay_exposures[1]
    /\ QLt(QOf(0), pay_exposures[2].executive_officer_payroll)
    /\ pay_exposures[2].overtime_rate = QOf(2)
    /\ pay_adjusted[2].executive_officer_payroll = QOf(0)
    /\ pay_adjusted[2].overtime_rate = QMk(3, 2)

\* payroll and every payroll component of the exposure are at least 0
NonNegativeExposure(e) ==
    /\ QLe(QOf(0), e.payroll)
    /\ QLe(QOf(0), e.overtime_earnings)
    /\ QLe(QOf(0), e.executive_officer_payroll)
    /\ QLe(QOf(0), e.severance_pay)
    /\ QLe(QOf(0), e.travel_reimbursements)
    /\ QLe(QOf(0), e.subcontractor_payroll)

\* C18: for every processed exposure with payroll >= 0 and payroll components
\* >= 0, the adjusted exposure has payroll >= 0.
C18_AdjustedPayrollNonNegative ==
    \A i \in 1..Len(pay_adjusted) :
        NonNegativeExposure(pay_exposures[i])
            => QLe(QOf(0), pay_adjusted[i].payroll)

\* the codes with a registered rating authority
SupportedStates == {"GA", "CA", "NY", "PA"}

\* C19: for a policy whose state is not one of GA, CA, NY, PA (a lowercase "ga"
\* included) get_state_config raises a ValueError whose message names each of the
\* four supported codes, and run_full_audit is either at its first step or has
\* raised that ValueError there: no rating authority, processed claims, adjusted
\* payroll, mod or report has been produced.  For the four codes, spelled exactly,
\* the lookup returns the registered authority.
C19_UnsupportedStateFails ==
    LET r == get_state_config(policy_info.state)
    IN  IF policy_info.state \in SupportedStates
        THEN /\ r.ok
             /\ r.config.state_code = policy_info.state
             /\ pc # "start" => config = r.config
        ELSE /\ ~r.ok
             /\ r.error = "ValueError"
             /\ \A code \in SupportedStates : Contains("'" \o code \o "'", r.message)
             /\ Contains(policy_info.state, r.message)
             /\ pc \in {"start", "raised"}
             /\ pc = "raised" => error = "ValueError"
             /\ config = Unset
             /\ current_processed_claims = Unset
             /\ current_mod = Unset
             /\ adjusted_exposures = Unset
             /\ payroll_leaks = Unset
             /\ corrected_processed_claims = Unset
             /\ claim_processing_leaks = Unset
             /\ claim_leaks = Unset
             /\ final_claims = Unset
             /\ corrected_mod = Unset
             /\ report = Unset

\* C19 witness: an audit of a policy in state "ga", with claims and exposures to
\* process, has raised ValueError
C19_Witness ==
    /\ pc = "raised"
    /\ policy_info.state = "ga"
    /\ error = "ValueError"
    /\ raw_claims # <<>>
    /\ raw_exposures # <<>>

\* the registered jurisdictions whose bureau is not NCCI
NonNcciStates == {"CA", "NY", "PA"}

\* C20: for a policy in CA, NY or PA the audit never returns: it is at one of its
\* first three steps or has raised NotImplementedError at the current-mod step,
\* with no mod and no report; when the rating authority is loaded, its
\* calculate_w_and_b raises NotImplementedError for every expected-loss value of
\* the grid and for the audit's own expected-loss total if it is CA's, NY's or
\* PA's, and returns a (W, B) pair for that total if it is GA's; an audit that
\* returns a report is a GA audit.
C20_NonNcciFailsClosed ==
    /\ policy_info.state \in NonNcciStates =>
         /\ pc \in {"start", "current_claims", "current_mod", "raised"}
         /\ pc = "raised" => error = "NotImplementedError"
         /\ current_mod = Unset
         /\ corrected_mod = Unset
         /\ report = Unset
    /\ pc = "current_mod" =>
         LET total == SumLeftToRight([i \in 1..Len(raw_exposures) |->
                                        ExposureExpected(raw_exposures[i])])
         IN  IF config.state_code \in NonNcciStates
             THEN \A E \in ExpectedLossGrid \cup {total} :
                    calculate_w_and_b(config, QToR(E)) = Raise("NotImplementedError")
             ELSE LET r == calculate_w_and_b(config, QToR(total))
                  IN  /\ config.state_code = "GA"
                      /\ r.ok
                      /\ DOMAIN r = {"ok", "W", "B"}
    /\ pc = "returned" =>
         /\ policy_info.state = "GA"
         /\ report.policy_info = policy_info
         /\ report.current_mod_calc.state = "GA"

\* C20 witness: an audit of a PA policy (the authority with no override of
\* calculate_w_and_b), with exposures and claims, has raised NotImplementedError
C20_Witness ==
    /\ pc = "raised"
    /\ policy_info.state = "PA"
    /\ config = PennsylvaniaConfig
    /\ error = "NotImplementedError"
    /\ raw_exposures # <<>>
    /\ raw_claims # <<>>

\* the claims the detector's loop has processed
DetectedClaims == SubSeq(det_claims, 1, det_index - 1)

\* the positions in the detector's leak list of the DUPLICATE_CLAIMS leaks emitted
\* for the claim (the claim is the second of the two affected items)
DuplicateLeaksAt(c) ==
    {k \in 1..Len(det_leaks) :
        /\ det_leaks[k].leak_type = "DUPLICATE_CLAIMS"
        /\ Len(det_leaks[k].affected_items) = 2
        /\ det_leaks[k].affected_items[2] = c.claim_number}

\* the positions of the processed claims before position i with the key (accident
\* date, claimant name, incurred total) of the i-th
EarlierSameKey(i) ==
    {j \in 1..(i - 1) : SameSignature(DetectedClaims[j], DetectedClaims[i])}

\* the least position of a nonempty set of positions
First(positions) == CHOOSE j \in positions : \A h \in positions : j <= h

\* C21: for the claims the detector has processed, keyed by (accident date,
\* claimant name, incurred_total): a claim with no earlier claim of its key (the
\* first of its key, or a claim whose key is its own) has no DUPLICATE_CLAIMS
\* leak; every other claim has exactly one, whose affected items are the number
\* of the first claim of the key and its own number, with dollar_impact = its
\* incurred_total and recovery probability 0.90; there is no other
\* DUPLICATE_CLAIMS leak.
C21_DuplicatesFlaggedOnce ==
    /\ \A i \in 1..Len(DetectedClaims) :
         IF EarlierSameKey(i) = {}
         THEN DuplicateLeaksAt(DetectedClaims[i]) = {}
         ELSE /\ Cardinality(DuplicateLeaksAt(DetectedClaims[i])) = 1
              /\ \A k \in DuplicateLeaksAt(DetectedClaims[i]) :
                   /\ det_leaks[k].affected_items
                        = <<DetectedClaims[First(EarlierSameKey(i))].claim_number,
                            DetectedClaims[i].claim_number>>
                   /\ det_leaks[k].dollar_impact = RawTotal(DetectedClaims[i])
                   /\ det_leaks[k].recovery_probability = QMk(90, 100)
    /\ Cardinality({k \in 1..Len(det_leaks) :
                        det_leaks[k].leak_type = "DUPLICATE_CLAIMS"})
         = Cardinality({i \in 1..Len(DetectedClaims) : EarlierSameKey(i) # {}})

\* C21 witness: the detector has returned for three claims of one key, the second
\* with the total made of other parts; the third claim's leak names the first
\* claim and itself, and there are two duplicate leaks
C21_Witness ==
    /\ det_pc = "returned"
    /\ Len(det_claims) = 3
    /\ EarlierSameKey(3) = {1, 2}
    /\ det_claims[1].incurred_indemnity # det_claims[2].incurred_indemnity
    /\ QLt(QOf(0), RawTotal(det_claims[1]))
    /\ \E k \in DuplicateLeaksAt(det_claims[3]) :
         det_leaks[k].affected_items = <<"CLM-1", "CLM-3">>
    /\ Cardinality({k \in 1..Len(det_leaks) :
                        det_leaks[k].leak_type = "DUPLICATE_CLAIMS"}) = 2

\* the positions in the detector's leak list of the ZOMBIE_RESERVES leaks naming
\* the claim
ZombieLeaksAt(c) ==
    {k \in 1..Len(det_leaks) :
        /\ det_leaks[k].leak_type = "ZOMBIE_RESERVES"
        /\ det_leaks[k].affected_items = <<c.claim_number>>}

\* the claim is open and its last payment is more than 180 days before the date
OpenAndInactive(c, as_of) ==
    /\ c.status = "Open"
    /\ c.last_payment_date # <<>>
    /\ as_of - c.last_payment_date[1] >= 181

Outcome(a) ==
    IF par_pc[a] = "returned"
    THEN [ok |-> TRUE, report |-> par_locals[a].report]
    ELSE Raise(par_locals[a].error)

Finished(a) == par_pc[a] \in {"returned", "raised"}

\* C23: a finished call of run_full_audit gave the report, or raised the error,
\* that its arguments alone determine; two finished calls with identical
\* arguments (policy, exposures, claims, valuation date, executive cap) gave
\* identical reports with identical to_json serializations, or raised the same
\* error.
C23_Deterministic ==
    /\ \A a \in Audits :
         Finished(a) => Outcome(a) = run_full_audit(par_inputs[a])
    /\ \A a, b \in Audits :
         (Finished(a) /\ Finished(b) /\ par_inputs[a] = par_inputs[b]) =>
            /\ Outcome(a) = Outcome(b)
            /\ par_pc[a] = "returned" =>
                 to_json(par_locals[a].report) = to_json(par_locals[b].report)

\* C23 witness: two calls with identical arguments have returned reports that list
\* leaks and show a mod reduction
C23_Witness ==
    /\ par_inputs["first"] = par_inputs["second"]
    /\ par_pc["first"] = "returned"
    /\ par_pc["second"] = "returned"
    /\ Len(par_locals["first"].report.detected_leaks) > 3
    /\ par_locals["second"].report.mod_reduction # QOf(0)
    /\ to_json(par_locals["first"].report).total_leaks_found
         = Len(par_locals["second"].report.detected_leaks)

\* the call has built its rating authority
HasConfig(a) == par_locals[a].config # 0

\* the position of a step in run_full_audit (a call that raised is at none)
StepRank(step) ==
    CASE step = "start" -> 0
      [] step = "current_claims" -> 1
      [] step = "current_mod" -> 2
      [] step = "adjust_payroll" -> 3
      [] step = "corrected_claims" -> 4
      [] step = "claim_leaks" -> 5
      [] step = "final_claims" -> 6
      [] step = "corrected_mod" -> 7
      [] step = "compile" -> 8
      [] step = "returned" -> 9
      [] step = "raised" -> -1

\* the call has completed the step and not raised
Past(a, step) == StepRank(par_pc[a]) > StepRank(step)

\* C24: in every interleaving of the steps of two calls of run_full_audit, the
\* calls refer to different StateConfig instances, each still equal to the
\* authority registered for the call's own state; the processed claims, adjusted
\* exposures and leak lists a call holds are those computed from its own
\* arguments; and a call that returns gives the report it gives when run alone,
\* as a call that raises raises the same error.
C24_IndependentAudits ==
    /\ \A a, b \in Audits :
         (a # b /\ HasConfig(a) /\ HasConfig(b))
            => par_locals[a].config # par_locals[b].config
    /\ \A a \in Audits :
         LET mine == par_locals[a]
             args == par_inputs[a]
         IN  /\ HasConfig(a) =>
                  ConfigOf(a) = STATE_CONFIGS[args.policy_info.state]
             /\ Past(a, "current_claims") =>
                  mine.current_processed_claims
                    = preprocess_claims(args.raw_claims, ConfigOf(a)).processed
             /\ Past(a, "adjust_payroll") =>
                  /\ mine.payroll_leaks
                       = adjust_payroll_for_leaks(args.raw_exposures, ConfigOf(a),
                                                  args.exec_officer_cap).leaks
                  /\ Len(mine.adjusted_exposures) = Len(args.raw_exposures)
             /\ Past(a, "corrected_claims") =>
                  mine.claim_processing_leaks
                    = preprocess_claims(args.raw_claims, ConfigOf(a)).leaks
             /\ Past(a, "claim_leaks") =>
                  mine.claim_leaks
                    = detect_claim_leaks(args.raw_claims, args.valuation_date)
             /\ par_pc[a] = "returned" =>
                  /\ run_full_audit(args).ok
                  /\ mine.report = run_full_audit(args).report
             /\ par_pc[a] = "raised" =>
                  /\ ~run_full_audit(args).ok
                  /\ mine.error = run_full_audit(args).error

\* C24 witness: two Georgia policies with different numbers; the first call has
\* returned while the second is between its two passes, and the second then
\* returns a different report
C24_Witness ==
    /\ par_inputs["first"].policy_info.policy_number
         # par_inputs["second"].policy_info.policy_number
    /\ par_inputs["first"].policy_info.state = "GA"
    /\ par_inputs["second"].policy_info.state = "GA"
    /\ par_pc["first"] = "returned"
    /\ par_pc["second"] = "corrected_claims"
    /\ par_locals["first"].config = 2
    /\ par_locals["second"].config = 1
    /\ par_locals["first"].report.current_mod_calc # par_locals["second"].current_mod

\* what the caller handed to the four calls
CallerArguments ==
    <<inputs, gate_config, claims, pay_exposures, pay_cap, det_claims,
      det_valuation_date>>

\* C25: no step of run_full_audit, preprocess_claims, adjust_payroll_for_leaks
\* or detect_claim_leaks changes the policy record, the exposure list, the
\* claim list or any other argument the caller passed; and once the current
\* pass of the audit has produced its processed claims and its mod, no later
\* step, the correction pass included, changes them.
C25_InputsNeverMutated ==
    [][ /\ CallerArguments' = CallerArguments
        /\ StepRank(pc) > StepRank("current_claims")
             => current_processed_claims' = current_processed_claims
        /\ StepRank(pc) > StepRank("adjust_payroll")
             => current_mod' = current_mod ]_vars

\* C25 witness: all four calls have returned; the audit dropped a denied claim
\* from the corrected pass and the caller's claim list still holds it
C25_Witness ==
    /\ pc = "returned"
    /\ gate_pc = "returned"
    /\ pay_pc = "returned"
    /\ det_pc = "returned"
    /\ \E i \in 1..Len(raw_claims) : is_denied(raw_claims[i])
    /\ Len(final_claims) < Len(raw_claims)
    /\ Len(current_processed_claims) = Len(raw_claims)
    /\ claims = raw_claims
    /\ det_claims = raw_claims
    /\ Len(pay_adjusted) = Len(pay_exposures)

\* the report lists a leak of the type
ReportsLeakOfType(leak_type) ==
    \E i \in 1..Len(report.detected_leaks) :
        report.detected_leaks[i].leak_type = leak_type

\* C26: a returned audit report lists an ARD_MISMATCH leak exactly when the
\* policy's anniversary rating date differs from its effective date.
C26_ArdMismatchReported ==
    pc = "returned"
        => (ReportsLeakOfType("ARD_MISMATCH")
              <=> ~mod_applied_correctly(policy_info))

\* the half of C26 that the audit keeps: no ARD_MISMATCH leak for a policy whose
\* anniversary rating date is its effective date
C26_NoLeakWhenDatesAgree ==
    (pc = "returned" /\ mod_applied_correctly(policy_info))
        => ~ReportsLeakOfType("ARD_MISMATCH")

\* a returned audit of a policy whose two dates differ
C26_MismatchAudited ==
    /\ pc = "returned"
    /\ ~mod_applied_correctly(policy_info)
    /\ Len(report.detected_leaks) > 0

\* the processed claims of one accident date, in the order they were appended
ProcessedOn(accident_date) ==
    SelectSeq(processed, LAMBDA p : p.original_claim.accident_date = accident_date)

\* the sum of a field of processed claims
AmountSum(list, field) ==
    QSum([i \in 1..Len(list) |-> list[i][field]] \o <<>>)

\* no claim of the call has a negative incurred amount
NonNegativeClaims ==
    \A i \in 1..Len(claims) :
        /\ QLe(QOf(0), claims[i].incurred_indemnity)
        /\ QLe(QOf(0), claims[i].incurred_medical)

C28_WeightIsCredibility ==
    (wb_pc = "returned" /\ wb_config = GeorgiaConfig)
        => /\ RCmp(wb_result.W, ROfInt(0)) >= 0
           /\ RCmp(wb_result.W, ROfInt(1)) <= 0

\* the half of C28 that the formula keeps: W is never negative
C28_WeightNonNegative ==
    (wb_pc = "returned" /\ wb_config = GeorgiaConfig)
        => RCmp(wb_result.W, ROfInt(0)) >= 0

\* W is at most 1 for expected losses up to 80,000 and above 1 from 85,000 on
C28_WeightAboveOneFrom85000 ==
    (wb_pc = "returned" /\ wb_config = GeorgiaConfig)
        => /\ QLe(wb_expected_losses, QOf(80000))
                => RCmp(wb_result.W, ROfInt(1)) <= 0
           /\ QLe(QOf(85000), wb_expected_losses)
                => RCmp(wb_result.W, ROfInt(1)) > 0

\* Georgia's W for expected losses of 100,000, where Ke is about 10,119 and
\* Kp is 7,500
C28_WeightAt100000 ==
    /\ wb_pc = "returned"
    /\ wb_config = GeorgiaConfig
    /\ wb_expected_losses = QOf(100000)
    /\ RCmp(wb_result.W, ROfInt(1)) > 0

\* C29: in every returned audit the corrected experience_mod is at most the
\* current experience_mod, and mod_reduction and premium_savings are not
\* negative.
C29_CorrectionsNeverRaiseMod ==
    pc = "returned"
        => /\ QLe(corrected_mod.experience_mod, current_mod.experience_mod)
           /\ QLe(QOf(0), report.mod_reduction)
           /\ QLe(QOf(0), report.premium_savings)

\* a returned audit of no claims whose payroll corrections raised the mod
C29_RaisedByPayrollCorrection ==
    /\ pc = "returned"
    /\ raw_claims = <<>>
    /\ Len(payroll_leaks) > 0
    /\ QLt(current_mod.experience_mod, corrected_mod.experience_mod)
    /\ QLt(report.premium_savings, QOf(0))

\* the report's leaks whose affected items name the claim
LeaksNaming(claim_number) ==
    SelectSeq(report.detected_leaks,
              LAMBDA l : \E k \in 1..Len(l.affected_items) :
                            l.affected_items[k] = claim_number)

\* the sum of dollar_impact over the report's leaks that name the claim
ImpactNaming(claim_number) ==
    LET naming == LeaksNaming(claim_number)
    IN  QSum([k \in 1..Len(naming) |-> naming[k].dollar_impact] \o <<>>)

\* max(incurred_total, total reserves) of a claim
ClaimWorth(c) ==
    QMax(RawTotal(c), QAdd(c.reserves_indemnity, c.reserves_medical))

\* C30: in every returned report, for each claim the dollar_impact of the leaks
\* whose affected items name the claim sum to at most
\* max(incurred_total, reserves_indemnity + reserves_medical) of the claim.
C30_ClaimCountedOnce ==
    pc = "returned"
        => \A i \in 1..Len(raw_claims) :
             QLe(ImpactNaming(raw_claims[i].claim_number), ClaimWorth(raw_claims[i]))

\* every single leak that names one claim only is within the worth of that claim
C30_EachLeakWithinWorth ==
    pc = "returned"
        => \A i \in 1..Len(raw_claims) :
             LET naming == LeaksNaming(raw_claims[i].claim_number)
             IN  \A k \in 1..Len(naming) :
                   Len(naming[k].affected_items) = 1
                      => QLe(naming[k].dollar_impact, ClaimWorth(raw_claims[i]))

\* a returned audit of one open claim whose notes carry the subrogation, denial
\* and second-injury keywords: four leaks name it and their impacts sum above
\* its incurred total
C30_OneClaimFourLeaks ==
    /\ pc = "returned"
    /\ Len(raw_claims) = 1
    /\ raw_claims[1].claimant_name = "Ann"
    /\ Len(LeaksNaming(raw_claims[1].claim_number)) = 4
    /\ ImpactNaming(raw_claims[1].claim_number) = QOf(71250)
    /\ ClaimWorth(raw_claims[1]) = QOf(35000)
====
